---- MODULE Spec2Model ----
(***************************************************************************)
(* Model of bun-docs-mcp-proxy: the request-forwarding engine              *)
(* (BunDocsClient::forward_request, a retry loop with exponential backoff, *)
(* BunDocsClient::parse_sse_response, the SSE event reducer, and the pure  *)
(* helpers they call), and the MCP server mode of main: the stdio server   *)
(* loop, the JSON-RPC dispatcher and its handlers.                         *)
(***************************************************************************)
EXTENDS Integers, Sequences, FiniteSets, TLC

(***************************************************************************)
(* serde_json::Value, and serde_json::from_str on a text given as a        *)
(* sequence of lexical tokens [k |-> kind, s |-> spelling].                 *)
(***************************************************************************)
None == [some |-> FALSE]

Some(x) == [some |-> TRUE, v |-> x]

JNull == [t |-> "null"]

JBool(b) == [t |-> "bool", b |-> b]

JNum(n) == [t |-> "number", n |-> n]

JStr(s) == [t |-> "string", s |-> s]

\* a string the model spells out character by character (a resource uri)
JText(chars) == [t |-> "string", chars |-> chars]

\* a string holding a JSON text (the output of serde_json::to_string)
JQuoted(tokens) == [t |-> "string", tokens |-> tokens]

\* a string that is the text of a message made by format!
JDisplay(text) == [t |-> "string", text |-> text]

JArr(a) == [t |-> "array", a |-> a]

JObj(m) == [t |-> "object", m |-> m]

EmptyMap == [k \in {} |-> JNull]

\* Value::get(key) with a string key: Some only on an object holding the key.
Get(v, key) ==
    IF v.t = "object" /\ key \in DOMAIN v.m THEN Some(v.m[key]) ELSE None

P(s) == [k |-> "punct", s |-> s]

S(s) == [k |-> "string", s |-> s]

N(s) == [k |-> "number", s |-> s]

L(s) == [k |-> "literal", s |-> s]

\* a string literal spelled out character by character
T(chars) == [k |-> "string", chars |-> chars]

\* a string literal whose content is a JSON text
Q(tokens) == [k |-> "string", tokens |-> tokens]

\* a string literal whose content is the text of a message
D(text) == [k |-> "string", text |-> text]

\* the Value::String a string literal stands for
string_value(tok) ==
    IF "s" \in DOMAIN tok THEN JStr(tok.s)
    ELSE IF "chars" \in DOMAIN tok THEN JText(tok.chars)
    ELSE IF "tokens" \in DOMAIN tok THEN JQuoted(tok.tokens)
    ELSE JDisplay(tok.text)

\* a run of characters that is no JSON token (e.g. the word `not`)
J(s) == [k |-> "junk", s |-> s]

Fail == [ok |-> FALSE]

Done(v, rest) == [ok |-> TRUE, v |-> v, rest |-> rest]

RECURSIVE ParseValue(_), ParseMembers(_, _), ParseElements(_, _)

\* one JSON value at the head of ts; the unread tokens are returned in rest
ParseValue(ts) ==
    IF ts = <<>> THEN Fail
    ELSE LET h == Head(ts)
             r == Tail(ts)
         IN CASE h.k = "string" -> Done(string_value(h), r)
              [] h.k = "number" -> Done(JNum(h.s), r)
              [] h.k = "literal" ->
                    IF h.s = "null" THEN Done(JNull, r)
                    ELSE IF h.s = "true" THEN Done(JBool(TRUE), r)
                    ELSE IF h.s = "false" THEN Done(JBool(FALSE), r)
                    ELSE Fail
              [] h.k = "punct" /\ h.s = "{" ->
                    IF r # <<>> /\ Head(r) = P("}")
                    THEN Done(JObj(EmptyMap), Tail(r))
                    ELSE ParseMembers(r, EmptyMap)
              [] h.k = "punct" /\ h.s = "[" ->
                    IF r # <<>> /\ Head(r) = P("]")
                    THEN Done(JArr(<<>>), Tail(r))
                    ELSE ParseElements(r, <<>>)
              [] OTHER -> Fail

\* `"key" : value` then `,` (more members) or `}`; a repeated key keeps the
\* last value (serde_json::Map::insert)
ParseMembers(ts, m) ==
    IF Len(ts) < 2 \/ Head(ts).k # "string" \/ ts[2] # P(":") THEN Fail
    ELSE LET key == Head(ts).s
             val == ParseValue(SubSeq(ts, 3, Len(ts)))
         IN IF ~val.ok \/ val.rest = <<>> THEN Fail
            ELSE LET m2 == (key :> val.v) @@ m
                     sep == Head(val.rest)
                 IN IF sep = P("}") THEN Done(JObj(m2), Tail(val.rest))
                    ELSE IF sep = P(",") THEN ParseMembers(Tail(val.rest), m2)
                    ELSE Fail

ParseElements(ts, a) ==
    LET val == ParseValue(ts)
    IN IF ~val.ok \/ val.rest = <<>> THEN Fail
       ELSE LET a2 == Append(a, val.v)
                sep == Head(val.rest)
            IN IF sep = P("]") THEN Done(JArr(a2), Tail(val.rest))
               ELSE IF sep = P(",") THEN ParseElements(Tail(val.rest), a2)
               ELSE Fail

\* serde_json::from_str::<Value>: one value and nothing after it
from_str(ts) ==
    LET r == ParseValue(ts)
    IN IF r.ok /\ r.rest = <<>> THEN [ok |-> TRUE, v |-> r.v] ELSE [ok |-> FALSE]

(***************************************************************************)
(* Pure helpers of BunDocsClient.                                          *)
(***************************************************************************)
\* a retry budget one larger than the source's
MAX_RETRIES_four == 3 + 1

\* the URL BunDocsClient::new() gives the client
BUN_DOCS_API == "https://bun.com/docs/mcp"

MAX_RETRIES == 3

BACKOFF_BASE_MS == 200

BACKOFF_MAX_MS == 1000

MAX_ERROR_BODY_SIZE == 100000

SNIPPET_MAX == 2048

HEADER_SUMMARY_MAX == 8

Min(a, b) == IF a <= b THEN a ELSE b

saturating_sub(a, b) == IF a >= b THEN a - b ELSE 0

\* `as u32` of a usize: the low 32 bits
as_u32(n) == n - ((((n \div (2^16)) \div (2^16)) * 2^16) * 2^16)

\* a u64 as four limbs of 16 bits, the lowest first
u64_from(n) == <<n % (2^16), (n \div (2^16)) % (2^16), 0, 0>>

u64_MAX == <<2^16 - 1, 2^16 - 1, 2^16 - 1, 2^16 - 1>>

\* the u64 as a number, for the values that fit the integers of the model
u64_value(x) == x[1] + (2^16 * x[2])

\* a shift of a u64 by its width or more: `attempt to shift left with
\* overflow` where overflow checks are compiled in
shl_overflows(n) == n >= 64

\* 1_u64 << n; without overflow checks the shift amount is taken modulo 64
Shl1(n) == [i \in 1..4 |-> IF i = ((n % 64) \div 16) + 1 THEN 2^((n % 64) % 16) ELSE 0]

\* u64::saturating_mul of a constant k < 2^15 and a u64
saturating_mul(k, x) ==
    LET p1 == k * x[1]
        p2 == (k * x[2]) + (p1 \div (2^16))
        p3 == (k * x[3]) + (p2 \div (2^16))
        p4 == (k * x[4]) + (p3 \div (2^16))
    IN IF p4 \div (2^16) > 0 THEN u64_MAX
       ELSE <<p1 % (2^16), p2 % (2^16), p3 % (2^16), p4 % (2^16)>>

\* x <= y for two u64
u64_le(x, y) ==
    \/ x = y
    \/ \E i \in 1..4 : x[i] < y[i] /\ \A j \in (i + 1)..4 : x[j] = y[j]

\* u64::min
u64_min(x, y) == IF u64_le(x, y) THEN x ELSE y

\* the delay before the retry after a failed attempt, in a build without
\* overflow checks
backoff_delay_ms(attempt) ==
    LET base == saturating_mul(BACKOFF_BASE_MS, Shl1(as_u32(saturating_sub(attempt, 1))))
    IN u64_value(u64_min(base, u64_from(BACKOFF_MAX_MS)))

\* the classifier without the rate-limit code
is_transient_status_no429(status) == status \in {500, 502, 503, 504}

\* the classifier taking every 5xx for transient
is_transient_status_all5xx(status) == status = 429 \/ (500 <= status /\ status < 600)

\* the classifier taking 408 Request Timeout for transient as well
is_transient_status_with408(status) == status \in {408, 429, 500, 502, 503, 504}

is_transient_status(status) == status \in {429, 500, 502, 503, 504}

\* StatusCode::is_success
is_success(status) == 200 <= status /\ status < 300

\* reqwest::Error as the retry loop reads it: the three category predicates
is_transient_error_no_request(error) == error.is_connect \/ error.is_timeout

is_transient_error(error) == error.is_connect \/ error.is_timeout \/ error.is_request

(***************************************************************************)
(* Header values are sequences of one-character strings; "BIN" stands for   *)
(* a byte outside visible ASCII, which makes HeaderValue::to_str fail.      *)
(***************************************************************************)
to_str(value) ==
    IF \E i \in 1..Len(value) : value[i] = "BIN" THEN [ok |-> FALSE]
    ELSE [ok |-> TRUE, s |-> value]

IsSpace(c) == c \in {" ", "\t"}

to_ascii_lowercase_char(c) ==
    CASE c = "A" -> "a" []
    c = "B" -> "b" []
    c = "C" -> "c" []
    c = "D" -> "d" []
    c = "E" -> "e" []
    c = "F" -> "f" []
    c = "G" -> "g" []
    c = "H" -> "h" []
    c = "I" -> "i" []
    c = "J" -> "j" []
    c = "K" -> "k" []
    c = "L" -> "l" []
    c = "M" -> "m" []
    c = "N" -> "n" []
    c = "O" -> "o" []
    c = "P" -> "p" []
    c = "Q" -> "q" []
    c = "R" -> "r" []
    c = "S" -> "s" []
    c = "T" -> "t" []
    c = "U" -> "u" []
    c = "V" -> "v" []
    c = "W" -> "w" []
    c = "X" -> "x" []
    c = "Y" -> "y" []
    c = "Z" -> "z"
      [] OTHER -> c

to_ascii_lowercase(s) == [i \in 1..Len(s) |-> to_ascii_lowercase_char(s[i])]

\* str::split(';').next(): the text before the first `;` (all of it if none)
RECURSIVE split_first(_)

split_first(s) ==
    IF s = <<>> \/ Head(s) = ";" THEN <<>> ELSE <<Head(s)>> \o split_first(Tail(s))

RECURSIVE trim_start(_), trim_end(_)

trim_start(s) == IF s # <<>> /\ IsSpace(Head(s)) THEN trim_start(Tail(s)) ELSE s

trim_end(s) ==
    IF s # <<>> /\ IsSpace(s[Len(s)]) THEN trim_end(SubSeq(s, 1, Len(s) - 1)) ELSE s

\* a trim of the front only
trim_front(s) == trim_start(s)

trim(s) == trim_end(trim_start(s))

starts_with(s, prefix) ==
    Len(s) >= Len(prefix) /\ SubSeq(s, 1, Len(prefix)) = prefix

TEXT_EVENT_STREAM == <<"t", "e", "x", "t", "/", "e", "v", "e", "n", "t", "-", "s", "t", "r", "e", "a", "m">>

\* HeaderMap::get: the first value stored under the name, if any
RECURSIVE header_get(_, _)

header_get(headers, name) ==
    IF headers = <<>> THEN None
    ELSE IF Head(headers).name = name THEN Some(Head(headers).value)
    ELSE header_get(Tail(headers), name)

\* the content type without the lowercasing
main_content_type_as_sent(headers) ==
    LET h == header_get(headers, "content-type")
    IN IF ~h.some THEN <<>>
       ELSE LET t == to_str(h.v)
            IN IF ~t.ok THEN <<>>
               ELSE trim(split_first(t.s))

main_content_type(headers) ==
    LET h == header_get(headers, "content-type")
    IN IF ~h.some THEN <<>>
       ELSE LET t == to_str(h.v)
            IN IF ~t.ok THEN <<>>
               ELSE to_ascii_lowercase(trim(split_first(t.s)))

\* up to the first 8 headers, a binary value shown as <binary>
summarize_headers(headers) ==
    [i \in 1..Min(Len(headers), HEADER_SUMMARY_MAX) |->
        [key |-> headers[i].name,
         value |-> IF to_str(headers[i].value).ok THEN headers[i].value
                   ELSE <<"<binary>">>]]


(***************************************************************************)
(* A response body as bytes: "a" an ASCII byte, "L2" "L3" "L4" the lead     *)
(* byte of a 2-, 3-, 4-byte character, "C" a continuation byte, "X" a byte  *)
(* that is valid nowhere.  A decoded string is a sequence of characters     *)
(* [n |-> its UTF-8 length, c |-> what it is].                              *)
(***************************************************************************)
LeadLen(b) == CASE b = "L2" -> 2 [] b = "L3" -> 3 [] b = "L4" -> 4 [] OTHER -> 1

RECURSIVE CountCont(_, _)

\* continuation bytes at the head of bs, at most max of them
CountCont(bs, max) ==
    IF max = 0 \/ bs = <<>> \/ Head(bs) # "C" THEN 0
    ELSE 1 + CountCont(Tail(bs), max - 1)

REPLACEMENT == [n |-> 3, c |-> "U+FFFD"]

RECURSIVE from_utf8_lossy(_)

\* String::from_utf8_lossy: every maximal invalid sequence becomes U+FFFD
from_utf8_lossy(bs) ==
    IF bs = <<>> THEN <<>>
    ELSE LET h == Head(bs)
         IN IF h = "a" THEN <<[n |-> 1, c |-> "a"]>> \o from_utf8_lossy(Tail(bs))
            ELSE IF h \in {"C", "X"} THEN <<REPLACEMENT>> \o from_utf8_lossy(Tail(bs))
            ELSE LET k == LeadLen(h)
                     j == CountCont(Tail(bs), k - 1)
                 IN IF j = k - 1
                    THEN <<[n |-> k, c |-> "multibyte"]>>
                            \o from_utf8_lossy(SubSeq(bs, k + 1, Len(bs)))
                    ELSE <<REPLACEMENT>> \o from_utf8_lossy(SubSeq(bs, j + 2, Len(bs)))

RECURSIVE str_len(_)

\* str::len: the length in bytes
str_len(text) == IF text = <<>> THEN 0 ELSE Head(text).n + str_len(Tail(text))

RECURSIVE take_chars(_, _)

\* the characters whose end position is at or before max_len
take_chars(text, max_len) ==
    IF text = <<>> \/ Head(text).n > max_len THEN <<>>
    ELSE <<Head(text)>> \o take_chars(Tail(text), max_len - Head(text).n)

truncate_utf8(text, max_len) ==
    IF str_len(text) <= max_len THEN text ELSE take_chars(text, max_len)

\* &bytes[..MAX_ERROR_BODY_SIZE] when the body is longer than that
limit_bytes(bytes) ==
    IF Len(bytes) > MAX_ERROR_BODY_SIZE THEN SubSeq(bytes, 1, MAX_ERROR_BODY_SIZE)
    ELSE bytes

(***************************************************************************)
(* Errors built by forward_request and parse_sse_response.                 *)
(***************************************************************************)
NONE_CONTENT_TYPE == <<"<", "n", "o", "n", "e", ">">>

StatusError(status, content_type, headers, bytes) ==
    [msg |-> "Bun Docs API error",
     status |-> status,
     content_type |-> IF content_type = <<>> THEN NONE_CONTENT_TYPE ELSE content_type,
     headers |-> summarize_headers(headers),
     body_snippet |-> truncate_utf8(from_utf8_lossy(limit_bytes(bytes)), SNIPPET_MAX)]

SendError(error) == [msg |-> "Failed to send request to Bun Docs API", error |-> error]

JsonError == [msg |-> "Failed to parse JSON response"]

SseError == [msg |-> "No valid JSON-RPC response in SSE stream"]

UnknownError == [msg |-> "Unknown error sending request"]

Ok(v) == [ok |-> TRUE, v |-> v]

Err(e) == [ok |-> FALSE, e |-> e]

\* Option::unwrap_or_else
unwrap_or(opt, default) == IF opt.some THEN opt.v ELSE default


(***************************************************************************)
(* What the backend can answer.  A body is one thing seen three ways: as    *)
(* raw bytes (Response::bytes), as JSON text (Response::json) and as the    *)
(* items the event-stream parser yields from it (bytes_stream().eventsource *)
(* ()): [ok |-> TRUE, event, data, boundary] for an event, [ok |-> FALSE]   *)
(* for a stream-level error.  data is the event's data as JSON text, and    *)
(* boundary tells whether byte index min(data.len(), 200) falls between two *)
(* characters of it (always so for data of at most 200 bytes, or ASCII      *)
(* data).  read_ok = FALSE: reading the body fails.                         *)
(***************************************************************************)
MaxStream == 2

MaxCalls == 2

TXT_RESULT ==
    <<P("{"), S("result"), P(":"), P("{"), S("tools"), P(":"), P("["), P("]"), P("}"), P("}")>>

TXT_ERROR ==
    <<P("{"), S("error"), P(":"), P("{"), S("code"), P(":"), N("-32000"), P("}"), P("}")>>

TXT_RESULT_NULL == <<P("{"), S("result"), P(":"), L("null"), P("}")>>

TXT_OTHER == <<P("{"), S("jsonrpc"), P(":"), S("2.0"), P("}")>>

\* the first tokens of TXT_RESULT: an object cut off in the middle
TXT_HALF == <<P("{"), S("result"), P(":"), P("{")>>

\* the tokens of TXT_RESULT after TXT_HALF
TXT_TAIL == <<S("tools"), P(":"), P("["), P("]"), P("}"), P("}")>>

TXT_WORDS == <<J("Service"), J("Unavailable")>>

EventTypes == {"", "message", "completion", "heartbeat"}

EventData == {<<>>, TXT_HALF, TXT_TAIL, TXT_OTHER, TXT_RESULT, TXT_RESULT_NULL, TXT_ERROR}

Event(type, data) == [ok |-> TRUE, event |-> type, data |-> data, boundary |-> TRUE]

\* an event whose data is the cut-off object, longer than 200 bytes, with a
\* multi-byte character lying across byte 200
LongEvent(type) == [ok |-> TRUE, event |-> type, data |-> TXT_HALF, boundary |-> FALSE]

StreamError == [ok |-> FALSE]

StreamItems ==
    {Event(t, d) : t \in EventTypes, d \in EventData}
        \cup {LongEvent(t) : t \in EventTypes} \cup {StreamError}

\* every stream of at most n items
StreamsUpTo(n) == UNION {[1..k -> StreamItems] : k \in 0..n}

Body(bytes, json, stream, read_ok) ==
    [bytes |-> bytes, json |-> json, stream |-> stream, read_ok |-> read_ok]

BODY_RESULT == Body(<<"a", "a">>, TXT_RESULT, <<>>, TRUE)

BODY_ERROR == Body(<<"a", "a">>, TXT_ERROR, <<>>, TRUE)

BODY_OTHER == Body(<<"a", "a">>, TXT_OTHER, <<>>, TRUE)

BODY_WORDS == Body(<<"a", "a", "a">>, TXT_WORDS, <<>>, TRUE)

BODY_EMPTY == Body(<<>>, <<>>, <<>>, TRUE)

\* `a`, a 3-byte character, then a 2-byte character cut off after its lead byte
BODY_UTF8 == Body(<<"a", "L3", "C", "C", "L2">>, TXT_WORDS, <<>>, TRUE)

BODY_UNREADABLE == Body(<<"a">>, TXT_RESULT, <<StreamError>>, FALSE)

\* a heartbeat, a message that is no JSON, the response, and an event after it
BODY_SSE_RESULT ==
    Body(<<"a">>, TXT_WORDS,
         <<Event("heartbeat", <<>>), Event("message", TXT_HALF),
           Event("message", TXT_RESULT), Event("message", TXT_ERROR)>>, TRUE)

BODY_SSE_BROKEN ==
    Body(<<"a">>, TXT_WORDS,
         <<Event("", TXT_OTHER), StreamError, Event("message", TXT_RESULT)>>, TRUE)

BODY_SSE_ERROR == Body(<<"a">>, TXT_WORDS, <<Event("completion", TXT_ERROR)>>, TRUE)

BODY_SSE_IGNORED == Body(<<"a">>, TXT_WORDS, <<Event("heartbeat", TXT_RESULT)>>, TRUE)

BODY_SSE_LONG ==
    Body(<<"a">>, TXT_WORDS, <<LongEvent("message"), Event("", TXT_RESULT_NULL)>>, TRUE)

\* a stream of one message that is no JSON and is longer than 200 bytes
BODY_SSE_CUT == Body(<<"a">>, TXT_WORDS, <<LongEvent("message")>>, TRUE)

SseBody(stream) == Body(<<"a">>, TXT_WORDS, stream, TRUE)

Header(name, value) == [name |-> name, value |-> value]

HDR_NONE == <<>>

HDR_PLAIN == <<Header("content-type", <<"t", "e", "x", "t", "/", "p", "l", "a", "i", "n">>)>>

HDR_JSON ==
    <<Header("content-length", <<"2">>),
      Header("content-type", <<"a", "p", "p", "l", "i", "c", "a", "t", "i", "o", "n", "/", "j", "s", "o", "n", ";", " ", "c", "h", "a", "r", "s", "e", "t", "=", "u", "t", "f", "-", "8">>)>>

HDR_SSE == <<Header("content-type", <<"t", "e", "x", "t", "/", "e", "v", "e", "n", "t", "-", "s", "t", "r", "e", "a", "m">>)>>

HDR_SSE_UPPER == <<Header("content-type", <<" ", "T", "E", "X", "T", "/", "E", "v", "e", "n", "t", "-", "S", "t", "r", "e", "a", "m", " ", ";", "c", "h", "a", "r", "s", "e", "t", "=", "u", "t", "f", "-", "8">>)>>

HDR_BINARY == <<Header("content-type", <<"t", "BIN">>)>>

HDR_SSE_LONGER == <<Header("content-type", <<"t", "e", "x", "t", "/", "e", "v", "e", "n", "t", "-", "s", "t", "r", "e", "a", "m", "i", "n", "g">>)>>

HDR_SSE_SHORTER == <<Header("content-type", <<"t", "e", "x", "t", "/", "e", "v", "e", "n", "t">>)>>

Response(status, headers, body) ==
    [kind |-> "response", status |-> status, headers |-> headers, body |-> body]

NetError(c, t, r) ==
    [kind |-> "error", is_connect |-> c, is_timeout |-> t, is_request |-> r]

FailureStatuses == {301, 400, 404, 429, 500, 501, 502, 503, 504}

FailureShapes == {<<HDR_PLAIN, BODY_WORDS>>, <<HDR_NONE, BODY_UTF8>>, <<HDR_JSON, BODY_UNREADABLE>>}

FailureResponses ==
    {Response(s, hb[1], hb[2]) : s \in FailureStatuses, hb \in FailureShapes}

SuccessBodies ==
    {BODY_RESULT, BODY_ERROR, BODY_OTHER, BODY_WORDS, BODY_EMPTY, BODY_UNREADABLE,
     BODY_SSE_RESULT, BODY_SSE_BROKEN, BODY_SSE_ERROR, BODY_SSE_IGNORED, BODY_SSE_LONG}

SuccessResponses ==
    {Response(200, h, b) : h \in {HDR_NONE, HDR_JSON, HDR_SSE, HDR_SSE_UPPER, HDR_BINARY},
                           b \in SuccessBodies}
        \cup {Response(204, HDR_NONE, BODY_EMPTY), Response(299, HDR_JSON, BODY_RESULT),
              Response(200, HDR_SSE_LONGER, BODY_SSE_ERROR),
              Response(200, HDR_SSE_SHORTER, BODY_RESULT)}

\* a connection failure, a timeout, a request failure, and a failure of no
\* retried category (a redirect loop, a body or decode failure)
NetErrors ==
    {NetError(TRUE, FALSE, FALSE), NetError(FALSE, TRUE, FALSE),
     NetError(FALSE, FALSE, TRUE), NetError(FALSE, FALSE, FALSE)}

Backend == FailureResponses \cup SuccessResponses \cup NetErrors

REQ_TOOLS_CALL ==
    JObj([jsonrpc |-> JStr("2.0"), id |-> JNum("1"), method |-> JStr("tools/call"),
          params |-> JObj([name |-> JStr("SearchBun")])])

REQ_TOOLS_LIST == JObj([method |-> JStr("tools/list")])

Requests == {REQ_TOOLS_CALL, REQ_TOOLS_LIST}

\* what the history keeps of an attempt's answer
Summary(r) == IF r.kind = "response" THEN [kind |-> "response", status |-> r.status] ELSE r


(***************************************************************************)
(* The stdio transport, the JSON-RPC types of protocol.rs and the           *)
(* dispatcher of main.rs.                                                   *)
(***************************************************************************)
JSONRPC_PARSE_ERROR == -32700

JSONRPC_INVALID_PARAMS == -32602

JSONRPC_INTERNAL_ERROR == -32603

JSONRPC_METHOD_NOT_FOUND == -32601

JSONRPC_VERSION == "2.0"

\* format!(fmt, arg): the text of a message, by its format string and what is
\* displayed in it (None when the format has no argument)
format(fmt, shown) == [fmt |-> fmt, arg |-> shown]

JsonRpcError_new(code, text) == [code |-> code, message |-> text, data |-> None]

JsonRpcError_with_data(code, text, data) ==
    [code |-> code, message |-> text, data |-> Some(data)]

JsonRpcResponse_success(id, result) ==
    [jsonrpc |-> JSONRPC_VERSION, id |-> id, result |-> Some(result), error |-> None]

\* the error constructor that also fills `result`, with null
JsonRpcResponse_error_with_result(id, code, text) ==
    [jsonrpc |-> JSONRPC_VERSION, id |-> id, result |-> Some(JNull),
     error |-> Some(JsonRpcError_new(code, text))]

\* the error constructor dropping the id
JsonRpcResponse_error_no_id(id, code, text) ==
    [jsonrpc |-> JSONRPC_VERSION, id |-> JNull, result |-> None,
     error |-> Some(JsonRpcError_new(code, text))]

JsonRpcResponse_error(id, code, text) ==
    [jsonrpc |-> JSONRPC_VERSION, id |-> id, result |-> None,
     error |-> Some(JsonRpcError_new(code, text))]

JsonRpcResponse_error_with_data(id, code, text, data) ==
    [jsonrpc |-> JSONRPC_VERSION, id |-> id, result |-> None,
     error |-> Some(JsonRpcError_with_data(code, text, data))]

\* serde_json::Error, by its category
DeError(category) == [category |-> category]

\* Option<Value> read from a member: null and an absent member both give None
deserialize_option(opt) == IF opt.some /\ opt.v.t # "null" THEN Some(opt.v) ELSE None

\* #[derive(Deserialize)] of JsonRpcRequest on a parsed text: a map with the
\* members jsonrpc (string), id (any value) and method (string), other members
\* being ignored, or a sequence of exactly the four fields in order
deserialize_request(v) ==
    IF v.t = "object"
    THEN IF /\ Get(v, "jsonrpc").some /\ Get(v, "jsonrpc").v.t = "string"
            /\ Get(v, "id").some
            /\ Get(v, "method").some /\ Get(v, "method").v.t = "string"
         THEN Ok([jsonrpc |-> v.m.jsonrpc, id |-> v.m.id, method |-> v.m.method,
                  params |-> deserialize_option(Get(v, "params"))])
         ELSE Err(DeError("data"))
    ELSE IF v.t = "array"
    THEN IF Len(v.a) = 4 /\ v.a[1].t = "string" /\ v.a[3].t = "string"
         THEN Ok([jsonrpc |-> v.a[1], id |-> v.a[2], method |-> v.a[3],
                  params |-> deserialize_option(Some(v.a[4]))])
         ELSE Err(DeError("data"))
    ELSE Err(DeError("data"))

\* serde_json::from_str::<JsonRpcRequest>
from_str_request(ts) ==
    LET parsed == from_str(ts)
    IN IF parsed.ok THEN deserialize_request(parsed.v) ELSE Err(DeError("syntax"))

\* json!(x) of an Option<Value>: None is written as null
to_value(opt) == IF opt.some THEN opt.v ELSE JNull

\* Value::as_str: the characters of a string, a string the model does not
\* spell out being one symbol
as_str(v) ==
    IF v.t # "string" THEN None
    ELSE IF "chars" \in DOMAIN v THEN Some(v.chars)
    ELSE IF "s" \in DOMAIN v THEN Some(<<v.s>>)
    ELSE IF "tokens" \in DOMAIN v THEN Some(<<v.tokens>>)
    ELSE Some(<<v.text>>)

get_string_param(params, key) ==
    LET member == Get(params, key)
        str == IF member.some THEN as_str(member.v) ELSE None
    IN IF str.some THEN Ok(str.v)
       ELSE Err(format("Missing or invalid {key} parameter", [key |-> key]))

\* a strip_prefix that wants something left after the prefix
strip_prefix_nonempty(s, prefix) ==
    IF starts_with(s, prefix) /\ Len(s) > Len(prefix)
    THEN Some(SubSeq(s, Len(prefix) + 1, Len(s)))
    ELSE None

\* str::strip_prefix
strip_prefix(s, prefix) ==
    IF starts_with(s, prefix) THEN Some(SubSeq(s, Len(prefix) + 1, Len(s))) ELSE None

BUN_DOCS == <<"b", "u", "n", ":", "/", "/", "d", "o", "c", "s">>

BUN_DOCS_QUERY == <<"b", "u", "n", ":", "/", "/", "d", "o", "c", "s", "?", "q", "u", "e", "r", "y", "=">>

\* the uri check that lets every string pass as a query
parse_bun_docs_uri_any(uri) == Ok(uri)

parse_bun_docs_uri(uri) ==
    LET query_part == strip_prefix(uri, BUN_DOCS_QUERY)
    IN IF query_part.some THEN Ok(query_part.v)
       ELSE IF uri = BUN_DOCS THEN Ok(<<>>)
       ELSE Err(format("Invalid URI format: {uri}", [uri |-> uri]))

\* the keys of the objects of the model, in the order of serde_json's Map
KEY_ORDER ==
    <<"arguments", "capabilities", "code", "contents", "data", "description", "error", "id",
      "inputSchema", "jsonrpc", "message", "method", "mimeType", "name", "params",
      "properties", "protocolVersion", "query", "required", "resources", "result",
      "serverInfo", "text", "tools", "type", "uri", "version">>

RECURSIVE to_tokens(_), members_to_tokens(_, _, _), elements_to_tokens(_, _)

\* serde_json::to_string of a Value, as the tokens of the text written
to_tokens(v) ==
    CASE v.t = "null" -> <<L("null")>>
      [] v.t = "bool" -> <<L(IF v.b THEN "true" ELSE "false")>>
      [] v.t = "number" -> <<N(v.n)>>
      [] v.t = "string" ->
            IF "s" \in DOMAIN v THEN <<S(v.s)>>
            ELSE IF "chars" \in DOMAIN v THEN <<T(v.chars)>>
            ELSE IF "tokens" \in DOMAIN v THEN <<Q(v.tokens)>>
            ELSE <<D(v.text)>>
      [] v.t = "array" -> <<P("[")>> \o elements_to_tokens(v.a, 1) \o <<P("]")>>
      [] v.t = "object" -> <<P("{")>> \o members_to_tokens(v.m, 1, TRUE) \o <<P("}")>>

members_to_tokens(m, i, first) ==
    IF i > Len(KEY_ORDER) THEN <<>>
    ELSE IF KEY_ORDER[i] \notin DOMAIN m THEN members_to_tokens(m, i + 1, first)
    ELSE (IF first THEN <<>> ELSE <<P(",")>>)
         \o <<S(KEY_ORDER[i]), P(":")>> \o to_tokens(m[KEY_ORDER[i]])
         \o members_to_tokens(m, i + 1, FALSE)

elements_to_tokens(a, i) ==
    IF i > Len(a) THEN <<>>
    ELSE (IF i = 1 THEN <<>> ELSE <<P(",")>>) \o to_tokens(a[i])
         \o elements_to_tokens(a, i + 1)

\* an Option that also counts Some(null) as none
is_none_or_null(opt) == ~opt.some \/ opt.v.t = "null"

\* Option::is_none, the test of skip_serializing_if
is_none(opt) == ~opt.some

\* #[derive(Serialize)] of JsonRpcError: code, message, and data unless None
error_to_tokens(e) ==
    <<P("{"), S("code"), P(":"), N(ToString(e.code)), P(","), S("message"), P(":"),
      D(e.message)>>
    \o (IF is_none(e.data) THEN <<>> ELSE <<P(","), S("data"), P(":")>> \o to_tokens(e.data.v))
    \o <<P("}")>>

\* serde_json::to_string(&response): #[derive(Serialize)] of JsonRpcResponse
\* writes jsonrpc, id, then result and error unless they are None
response_to_tokens(res) ==
    <<P("{"), S("jsonrpc"), P(":"), S(res.jsonrpc), P(","), S("id"), P(":")>>
    \o to_tokens(res.id)
    \o (IF is_none(res.result) THEN <<>>
        ELSE <<P(","), S("result"), P(":")>> \o to_tokens(res.result.v))
    \o (IF is_none(res.error) THEN <<>>
        ELSE <<P(","), S("error"), P(":")>> \o error_to_tokens(res.error.v))
    \o <<P("}")>>

\* the payload of handle_initialize
INIT_RESULT ==
    JObj([protocolVersion |-> JStr("2024-11-05"),
          capabilities |-> JObj([tools |-> JObj(EmptyMap), resources |-> JObj(EmptyMap)]),
          serverInfo |-> JObj([name |-> JStr("bun-docs-mcp-proxy"),
                               version |-> JStr("CARGO_PKG_VERSION")])])

\* the payload of handle_tools_list
TOOLS ==
    JObj([tools |-> JArr(<<JObj([
        name |-> JStr("SearchBun"),
        description |-> JStr("Search Bun documentation"),
        inputSchema |-> JObj([
            type |-> JStr("object"),
            properties |-> JObj([query |-> JObj([type |-> JStr("string"),
                                                 description |-> JStr("Search query")])]),
            required |-> JArr(<<JStr("query")>>)])])>>)])

\* the payload of handle_resources_list
RESOURCES ==
    JObj([resources |-> JArr(<<JObj([
        uri |-> JStr("bun://docs"),
        name |-> JStr("Bun Documentation"),
        description |-> JStr("Search and browse Bun documentation"),
        mimeType |-> JStr("application/json")])>>)])

handle_initialize(req) == JsonRpcResponse_success(req.id, INIT_RESULT)

\* a tools/list that answers with the params it was given
handle_tools_list_echo(req) ==
    JsonRpcResponse_success(req.id, IF req.params.some THEN req.params.v ELSE TOOLS)

handle_tools_list(req) == JsonRpcResponse_success(req.id, TOOLS)

handle_resources_list(req) == JsonRpcResponse_success(req.id, RESOURCES)

\* handle_tools_call up to its await: the body given to forward_request
original_request(req) ==
    JObj([jsonrpc |-> JStr("2.0"), id |-> req.id, method |-> req.method,
          params |-> to_value(req.params)])

\* the Ok arm of handle_tools_call in which any non-null `result` is unwrapped
result_field_or_whole_non_null(result) ==
    IF Get(result, "result").some /\ Get(result, "result").v.t # "null"
    THEN Get(result, "result").v
    ELSE result

\* the Ok arm of handle_tools_call: the `result` member if there is one
result_field_or_whole(result) ==
    IF Get(result, "result").some THEN Get(result, "result").v ELSE result

\* the message of an internal error, the engine's diagnostic left out
internal_error_message_bare(e) == format("Internal error", None)

\* format!("Internal error: {e}") on the engine's error
internal_error_message(e) == format("Internal error: {e}", e)

\* the match of handle_tools_call answering an error for a value that has an
\* `error` member
tools_call_response_error_mapped(req, forwarded) ==
    IF forwarded.ok /\ ~Get(forwarded.v, "error").some
    THEN JsonRpcResponse_success(req.id, result_field_or_whole(forwarded.v))
    ELSE JsonRpcResponse_error(req.id, JSONRPC_INTERNAL_ERROR,
                               format("Internal error", None))

\* handle_tools_call after its await: the match on what forward_request gave
tools_call_response(req, forwarded) ==
    IF forwarded.ok
    THEN JsonRpcResponse_success(req.id, result_field_or_whole(forwarded.v))
    ELSE JsonRpcResponse_error(req.id, JSONRPC_INTERNAL_ERROR,
                               internal_error_message(forwarded.e))

\* the json! of handle_resources_read: a tools/call of SearchBun
search_request(req, query) ==
    JObj([jsonrpc |-> JStr("2.0"), id |-> req.id, method |-> JStr("tools/call"),
          params |-> JObj([name |-> JStr("SearchBun"),
                           arguments |-> JObj([query |-> JText(query)])])])

\* an invalid-params answer of handle_resources_read
invalid_params(req, text) == JsonRpcResponse_error(req.id, JSONRPC_INVALID_PARAMS, text)

\* handle_resources_read up to its await: Err(the response returned early) or
\* Ok(the body given to forward_request)
resources_read_request(req) ==
    IF ~req.params.some THEN Err(invalid_params(req, format("Missing params", None)))
    ELSE LET uri == get_string_param(req.params.v, "uri")
         IN IF ~uri.ok THEN Err(invalid_params(req, uri.e))
            ELSE LET query == parse_bun_docs_uri(uri.v)
                 IN IF ~query.ok THEN Err(invalid_params(req, query.e))
                    ELSE Ok(search_request(req, query.v))

\* the text of the resource made of the `result` member alone
resource_text_unwrapped(result) == to_tokens(result_field_or_whole(result))

\* serde_json::to_string(&result): the text of the resource
resource_text(result) == to_tokens(result)

\* handle_resources_read after its await
resources_read_response(req, forwarded) ==
    IF forwarded.ok
    THEN LET uri == get_string_param(req.params.v, "uri").v
             text == resource_text(forwarded.v)
         IN JsonRpcResponse_success(req.id,
                JObj([contents |-> JArr(<<JObj([uri |-> JText(uri),
                                                mimeType |-> JStr("application/json"),
                                                text |-> JQuoted(text)])>>)]))
    ELSE JsonRpcResponse_error(req.id, JSONRPC_INTERNAL_ERROR,
                               internal_error_message(forwarded.e))

\* a handler either answers at once or gives a body to forward_request
Respond(res) == [forward |-> FALSE, response |-> res]

Forward(body) == [forward |-> TRUE, body |-> body]

\* the method names matched without regard to case
method_is_folded(req, name) ==
    req.method = JStr(name) \/ (name = "tools/call" /\ req.method = JStr("Tools/Call"))

\* `match request.method.as_str()`: the arm of `name` is taken
method_is(req, name) == req.method = JStr(name)

\* the `method =>` arm
method_not_found(req) ==
    JsonRpcResponse_error(req.id, JSONRPC_METHOD_NOT_FOUND,
                          format("Method not found: {method}", [method |-> req.method]))

\* the match of the server loop, each handler run up to its first await
dispatch(req) ==
    IF method_is(req, "tools/call") THEN Forward(original_request(req))
    ELSE IF method_is(req, "tools/list") THEN Respond(handle_tools_list(req))
    ELSE IF method_is(req, "resources/list") THEN Respond(handle_resources_list(req))
    ELSE IF method_is(req, "resources/read")
    THEN LET r == resources_read_request(req)
         IN IF r.ok THEN Forward(r.v) ELSE Respond(r.e)
    ELSE IF method_is(req, "initialize") THEN Respond(handle_initialize(req))
    ELSE Respond(method_not_found(req))

\* the continuation of the handler that awaited forward_request
handler_response(req, forwarded) ==
    IF method_is(req, "tools/call") THEN tools_call_response(req, forwarded)
    ELSE resources_read_response(req, forwarded)

\* the answer to a message that does not parse
parse_error_response(e) ==
    JsonRpcResponse_error(JNull, JSONRPC_PARSE_ERROR, format("Parse error: {e}", e))

\* a whitespace character of a line
W(s) == [k |-> "space", s |-> s]

NEWLINE == W("\n")

\* stdin.read_line(&mut line): the number of bytes read and the line, its
\* newline included; 0 bytes at the end of the input
read_line(input) ==
    CASE input.kind = "error" -> Err([msg |-> "Failed to read from stdin"])
      [] input.kind = "eof" -> Ok([bytes_read |-> 0, line |-> <<>>])
      [] input.kind = "line" ->
            Ok([bytes_read |-> Len(input.text) + 1, line |-> input.text \o <<NEWLINE>>])

RECURSIVE trim_line_start(_), trim_line_end(_)

trim_line_start(ts) ==
    IF ts # <<>> /\ Head(ts).k = "space" THEN trim_line_start(Tail(ts)) ELSE ts

trim_line_end(ts) ==
    IF ts # <<>> /\ ts[Len(ts)].k = "space"
    THEN trim_line_end(SubSeq(ts, 1, Len(ts) - 1)) ELSE ts

\* a line kept as it was read
trim_line_none(ts) == ts

\* line.trim()
trim_line(ts) == trim_line_end(trim_line_start(ts))

\* StdioTransport::read_message on what stdin gives next
read_message(input) ==
    LET read == read_line(input)
    IN IF ~read.ok THEN read
       ELSE IF read.v.bytes_read = 0 THEN Ok(None)
       ELSE IF trim_line(read.v.line) = <<>> THEN Ok(None)
       ELSE Ok(Some(trim_line(read.v.line)))

\* the loop going round again when stdin is closed
after_read_continue(msg) == IF ~msg.ok \/ ~msg.v.some THEN "read" ELSE "handle"

\* the loop ending on a read error as it does on Ok(None)
after_read_stop(msg) == IF ~msg.ok \/ ~msg.v.some THEN "stopped" ELSE "handle"

\* where the loop goes after read_message: `continue` on an error, `break` on
\* Ok(None), the rest of the body on a message
after_read(msg) ==
    IF ~msg.ok THEN "read"
    ELSE IF ~msg.v.some THEN "stopped"
    ELSE "handle"

\* a failed write ending the loop wherever it happens
after_write_strict(parsed, ok) == IF ok THEN "read" ELSE "stopped"

\* where the loop goes after write_message: the result of writing a parse
\* error is ignored (`let _ =`), a failed write of a response is a `break`
after_write(parsed, ok) == IF ok \/ ~parsed THEN "read" ELSE "stopped"

(***************************************************************************)
(* What stdin and the backend can give the server.                          *)
(***************************************************************************)
MaxMessages == 2

\* the id of a request, as the token of its text
IdTokens == {N("1"), S("abc"), L("null")}

Member(key, value) == <<P(","), S(key), P(":")>> \o value

\* {"jsonrpc":"2.0","id":id,"method":method} with "params":params if given
RequestText(id, method, params) ==
    <<P("{"), S("jsonrpc"), P(":"), S("2.0")>>
    \o Member("id", <<id>>) \o Member("method", <<S(method)>>)
    \o (IF params = <<>> THEN <<>> ELSE Member("params", params)) \o <<P("}")>>

PARAMS_SEARCH ==
    <<P("{"), S("name"), P(":"), S("SearchBun"), P(","), S("arguments"), P(":"),
      P("{"), S("query"), P(":"), S("bun"), P("}"), P("}")>>

PARAMS_NULL == <<L("null")>>

PARAMS_EMPTY == <<P("{"), P("}")>>

UriParams(uri) == <<P("{"), S("uri"), P(":"), uri, P("}")>>

URI_QUERY == <<"b", "u", "n", ":", "/", "/", "d", "o", "c", "s", "?", "q", "u", "e", "r", "y", "=", "a", "&", "b", "?">>

URI_PLAIN == <<"b", "u", "n", ":", "/", "/", "d", "o", "c", "s">>

URI_NO_QUERY == <<"b", "u", "n", ":", "/", "/", "d", "o", "c", "s", "?">>

URI_OTHER == <<"i", "n", "v", "a", "l", "i", "d", ":", "/", "/", "u", "r", "i">>

\* the method and params of the requests read
RequestShapes ==
    {<<"initialize", <<>>>>, <<"initialize", PARAMS_EMPTY>>,
     <<"tools/list", <<>>>>, <<"tools/list", PARAMS_SEARCH>>,
     <<"resources/list", <<>>>>, <<"resources/list", UriParams(T(URI_PLAIN))>>,
     <<"tools/call", PARAMS_SEARCH>>, <<"tools/call", <<>>>>, <<"tools/call", PARAMS_NULL>>,
     <<"resources/read", UriParams(T(URI_QUERY))>>,
     <<"resources/read", UriParams(T(URI_PLAIN))>>,
     <<"resources/read", <<>>>>, <<"resources/read", PARAMS_NULL>>,
     <<"resources/read", PARAMS_EMPTY>>,
     <<"resources/read", UriParams(N("7"))>>,
     <<"resources/read", UriParams(T(URI_NO_QUERY))>>,
     <<"resources/read", UriParams(T(URI_OTHER))>>,
     <<"resources/read", UriParams(T(<<>>))>>,
     <<"foo/bar", <<>>>>, <<"Tools/Call", PARAMS_SEARCH>>, <<"", <<>>>>}

RequestTexts == {RequestText(id, shape[1], shape[2]) : id \in IdTokens, shape \in RequestShapes}

\* a request given as the sequence of its four fields
TXT_REQUEST_SEQ ==
    <<P("["), S("2.0"), P(","), N("1"), P(","), S("tools/list"), P(","), L("null"), P("]")>>

TXT_NOT_JSON == <<J("not"), J("json")>>

TXT_CUT_SHORT == <<P("{"), S("jsonrpc"), P(":"), S("2.0"), P(",")>>

TXT_NO_ID ==
    <<P("{"), S("jsonrpc"), P(":"), S("2.0"), P(","), S("method"), P(":"),
      S("tools/call"), P("}")>>

TXT_NO_METHOD ==
    <<P("{"), S("jsonrpc"), P(":"), S("2.0"), P(","), S("id"), P(":"), N("1"), P("}")>>

TXT_METHOD_NUMBER ==
    <<P("{"), S("jsonrpc"), P(":"), S("2.0"), P(","), S("id"), P(":"), N("1"), P(","),
      S("method"), P(":"), N("5"), P("}")>>

TXT_NO_VERSION ==
    <<P("{"), S("id"), P(":"), N("1"), P(","), S("method"), P(":"), S("resources/read"),
      P("}")>>

TXT_NUMBER == <<N("42")>>

\* the lines that are no JSON-RPC request
MalformedTexts ==
    {TXT_NOT_JSON, TXT_CUT_SHORT, TXT_NO_ID, TXT_NO_METHOD, TXT_METHOD_NUMBER,
     TXT_NO_VERSION, TXT_NUMBER}

Line(text) == [kind |-> "line", text |-> text]

BLANK_LINE == Line(<<>>)

SPACES_LINE == Line(<<W(" "), W("\t")>>)

\* a request with spaces around it
PADDED_LINE == Line(<<W(" ")>> \o RequestText(N("1"), "tools/list", <<>>) \o <<W(" ")>>)

EOF == [kind |-> "eof"]

READ_ERROR == [kind |-> "error"]

\* what read_line can give: a line (without its newline), end of file, an error
StdinItems ==
    {Line(text) : text \in RequestTexts \cup MalformedTexts \cup {TXT_REQUEST_SEQ}}
        \cup {BLANK_LINE, SPACES_LINE, PADDED_LINE, EOF, READ_ERROR}

BODY_RESULT_NULL == Body(<<"a", "a">>, TXT_RESULT_NULL, <<>>, TRUE)

\* the answers of the backend to a forwarded request
ServerBackend ==
    {Response(503, HDR_PLAIN, BODY_WORDS), Response(404, HDR_NONE, BODY_UTF8),
     NetError(TRUE, FALSE, FALSE), NetError(FALSE, FALSE, FALSE),
     Response(200, HDR_JSON, BODY_RESULT), Response(200, HDR_JSON, BODY_RESULT_NULL),
     Response(200, HDR_JSON, BODY_ERROR), Response(200, HDR_JSON, BODY_OTHER),
     Response(200, HDR_JSON, BODY_WORDS),
     Response(200, HDR_SSE, BODY_SSE_RESULT), Response(200, HDR_SSE, BODY_SSE_IGNORED),
     Response(200, HDR_SSE, BODY_SSE_LONG), Response(200, HDR_SSE, BODY_SSE_CUT),
     Response(200, HDR_SSE, BODY_SSE_ERROR)}


(***************************************************************************)
(* State of one forward_request call on the client, and what it has done.  *)
(***************************************************************************)
VARIABLES
    base_url,       \* the URL the client posts to (BunDocsClient.base_url)
    log_debug,      \* whether the process logs at debug level (RUST_LOG)
    pc,             \* "idle", "build", "inflight", "sleeping", "sse", "done",
                    \* or "panicked": the process has aborted
    calls,          \* forward_request calls started so far
    request,        \* the argument of the current call
    attempt,        \* the loop variable of `for attempt in 1..=MAX_RETRIES`
    last_error,     \* Option<anyhow::Error>
    error,          \* the error built in the current iteration
    response,       \* what rb.send().await gave in the current iteration
    pos,            \* items taken from the event stream by event_stream.next()
    json_response,  \* Option<Value> of parse_sse_response
    outcome,        \* the Result the call returned
    posts,          \* the POSTs sent by the call, in order
    sleeps,         \* the delays of the sleeps begun by the call, in order
    responses,      \* the Summary of what each attempt received, in order
    returns,        \* times the call has returned
    arg,            \* the argument of a helper applied on its own
    ret,            \* Some(what the helper returned), None before it is applied
    main_pc,        \* the server loop of main: "read", "forward", "write", "stopped"
    nread,          \* read_message calls that have completed
    line,           \* the String the last read_line filled, its newline included
    message,        \* what the last read_message returned
    inbound,        \* Some(the JsonRpcRequest parsed from the message)
    reply,          \* Some(the JsonRpcResponse built for the message)
    nwritten,       \* responses written to stdout
    write_result    \* Some(whether the write of `reply` succeeded)

vars ==
    <<base_url, log_debug, arg, ret, pc, calls, request, attempt, last_error, error, response, pos,
      json_response, outcome, posts, sleeps, responses, returns, main_pc, nread, line,
      message, inbound, reply, nwritten, write_result>>

server_vars == <<main_pc, nread, line, message, inbound, reply, nwritten, write_result>>

engine_vars ==
    <<pc, calls, request, attempt, last_error, error, response, pos, json_response,
      outcome, posts, sleeps, responses, returns>>

NoResponse == [kind |-> "none"]

\* the state of the call before the first forward_request
Fresh ==
    /\ pc = "idle"
    /\ calls = 0
    /\ request = JNull
    /\ attempt = 0
    /\ last_error = None
    /\ error = None
    /\ response = NoResponse
    /\ pos = 0
    /\ json_response = None
    /\ outcome = None
    /\ posts = <<>>
    /\ sleeps = <<>>
    /\ responses = <<>>
    /\ returns = 0

\* the server loop before its first read_message
FreshServer ==
    /\ main_pc = "read"
    /\ nread = 0
    /\ line = <<>>
    /\ message = None
    /\ inbound = None
    /\ reply = None
    /\ nwritten = 0
    /\ write_result = None

Init ==
    /\ base_url = BUN_DOCS_API
    /\ log_debug \in BOOLEAN
    /\ arg = None
    /\ ret = None
    /\ Fresh
    /\ FreshServer

\* forward_request entered with the retry state kept in the client: the
\* attempt number and the recorded error are those the call before left
Enter_shared(req) ==
    /\ calls' = calls + 1
    /\ request' = req
    /\ attempt' = IF attempt = 0 THEN 1 ELSE attempt
    /\ last_error' = last_error
    /\ error' = None
    /\ response' = NoResponse
    /\ pos' = 0
    /\ json_response' = None
    /\ outcome' = None
    /\ posts' = <<>>
    /\ sleeps' = <<>>
    /\ responses' = <<>>
    /\ returns' = 0
    /\ pc' = "build"

\* forward_request is entered: `let mut last_error = None`, the loop starts at 1
Enter(req) ==
    /\ calls' = calls + 1
    /\ request' = req
    /\ attempt' = 1
    /\ last_error' = None
    /\ error' = None
    /\ response' = NoResponse
    /\ pos' = 0
    /\ json_response' = None
    /\ outcome' = None
    /\ posts' = <<>>
    /\ sleeps' = <<>>
    /\ responses' = <<>>
    /\ returns' = 0
    /\ pc' = "build"

\* a forward_request call made on the client directly
Call(req) ==
    /\ pc \in {"idle", "done"}
    /\ calls < MaxCalls
    /\ Enter(req)
    /\ UNCHANGED <<base_url, log_debug, arg, ret>>
    /\ UNCHANGED server_vars

\* the request is built and rb.send() is started
Send ==
    /\ pc = "build"
    /\ posts' = Append(posts, [attempt |-> attempt, url |-> base_url, body |-> request])
    /\ pc' = "inflight"
    /\ UNCHANGED <<base_url, log_debug, arg, ret, calls, request, attempt, last_error, error,
                   response, pos, json_response, outcome, sleeps, responses, returns>>
    /\ UNCHANGED server_vars

\* `return x` out of forward_request
Return(res) ==
    /\ pc' = "done"
    /\ outcome' = Some(res)
    /\ returns' = returns + 1

\* the retry test letting the last attempt back off too
retry_status_inclusive(status, n) == is_transient_status(status) /\ n <= MAX_RETRIES

retry_status(status, n) == is_transient_status(status) /\ n < MAX_RETRIES

\* the retry test for send failures letting the last attempt back off too
retry_error_inclusive(e, n) == is_transient_error(e) /\ n <= MAX_RETRIES

retry_error(e, n) == is_transient_error(e) /\ n < MAX_RETRIES

\* the transient branch with a delay that grows only after a status
Backoff_by_kind(err) ==
    /\ sleeps' = Append(sleeps, IF err.msg = "Bun Docs API error"
                                THEN backoff_delay_ms(attempt) ELSE BACKOFF_BASE_MS)
    /\ error' = Some(err)
    /\ pc' = "sleeping"
    /\ UNCHANGED <<outcome, returns, pos, json_response>>

\* the transient branch going round again without a sleep
Backoff_unslept(err) ==
    /\ sleeps' = sleeps
    /\ error' = Some(err)
    /\ pc' = "sleeping"
    /\ UNCHANGED <<outcome, returns, pos, json_response>>

\* the transient branch: the delay is computed and tokio::time::sleep begins
Backoff(err) ==
    /\ sleeps' = Append(sleeps, backoff_delay_ms(attempt))
    /\ error' = Some(err)
    /\ pc' = "sleeping"
    /\ UNCHANGED <<outcome, returns, pos, json_response>>

\* Response::json with the context "Failed to parse JSON response"
response_json(body) ==
    LET parsed == from_str(body.json)
    IN IF body.read_ok /\ parsed.ok THEN Ok(parsed.v) ELSE Err(JsonError)

\* Response::bytes().await.unwrap_or_else(|_| Bytes::default())
response_bytes(body) == IF body.read_ok THEN body.bytes ELSE <<>>

\* rb.send().await completes with r, and the match arms run up to the next await
Receive(r) ==
    /\ pc = "inflight"
    /\ response' = r
    /\ responses' = Append(responses, Summary(r))
    /\ IF r.kind = "response"
       THEN LET status == r.status
                content_type == main_content_type(r.headers)
            IN IF is_success(status)
               THEN IF starts_with(content_type, TEXT_EVENT_STREAM)
                    THEN /\ pc' = "sse"
                         /\ pos' = 0
                         /\ json_response' = None
                         /\ UNCHANGED <<outcome, returns, error, sleeps>>
                    ELSE /\ Return(response_json(r.body))
                         /\ UNCHANGED <<error, sleeps, pos, json_response>>
               ELSE LET err == StatusError(status, content_type, r.headers,
                                           response_bytes(r.body))
                    IN IF retry_status(status, attempt)
                       THEN Backoff(err)
                       ELSE /\ Return(Err(err))
                            /\ UNCHANGED <<error, sleeps, pos, json_response>>
       ELSE LET err == SendError(r)
            IN IF retry_error(r, attempt)
               THEN Backoff(err)
               ELSE /\ Return(Err(err))
                    /\ UNCHANGED <<error, sleeps, pos, json_response>>
    /\ UNCHANGED <<base_url, log_debug, arg, ret, calls, request, attempt, last_error, posts>>
    /\ UNCHANGED server_vars

\* the sleep ends: `last_error = Some(error); continue`, and the `for` either
\* takes the next attempt or is exhausted and the line after the loop runs
Wake ==
    /\ pc = "sleeping"
    /\ last_error' = error
    /\ error' = None
    /\ IF attempt < MAX_RETRIES
       THEN /\ attempt' = attempt + 1
            /\ pc' = "build"
            /\ UNCHANGED <<outcome, returns>>
       ELSE /\ Return(Err(unwrap_or(error, UnknownError)))
            /\ UNCHANGED attempt
    /\ UNCHANGED <<base_url, log_debug, arg, ret, calls, request, response, pos, json_response,
                   posts, sleeps, responses>>
    /\ UNCHANGED server_vars

\* the event type taken as it comes, an absent one not read as "message"
event_type_no_default(event) == event.event

\* the event type the reducer judges by
event_type(event) == IF event.event = "" THEN "message" ELSE event.event

\* no filter on the event type
is_message_like_any(type) == TRUE

is_message_like(type) == type = "message" \/ type = "completion"

\* only `result` marks a response
has_result_only(parsed) == Get(parsed, "result").some

has_result_or_error(parsed) == Get(parsed, "result").some \/ Get(parsed, "error").some

\* the data of an earlier event kept and joined with this event's
event_data_joined(stream, i) ==
    IF i > 1 /\ stream[i - 1].ok THEN stream[i - 1].data \o stream[i].data
    ELSE stream[i].data

\* `let data = event.data`: the text judged for the i-th item is its own data
event_data(stream, i) == stream[i].data

\* debug!("SSE data: {}", &data[..data.len().min(200)]): with debug logging on
\* the slice is taken, and slicing inside a character panics
debug_slice_panics(event) == log_debug /\ ~event.boundary

\* json_response.ok_or_else(|| anyhow!("No valid JSON-RPC response in SSE stream"))
ok_or_sse_error(opt) == IF opt.some THEN Ok(opt.v) ELSE Err(SseError)

\* one turn of the loop of parse_sse_response: event_stream.next().await and
\* the handling of what it gave; a `break` runs on to the return
SseNext ==
    /\ pc = "sse"
    /\ LET stream == response.body.stream
       IN IF pos >= Len(stream)
          THEN \* the stream has ended: break
               /\ Return(ok_or_sse_error(json_response))
               /\ UNCHANGED <<pos, json_response>>
          ELSE LET item == stream[pos + 1]
               IN /\ pos' = pos + 1
                  /\ IF ~item.ok
                     THEN \* stream error: break
                          /\ Return(ok_or_sse_error(json_response))
                          /\ UNCHANGED json_response
                     ELSE IF ~is_message_like(event_type(item))
                          THEN UNCHANGED <<pc, outcome, returns, json_response>>
                          ELSE IF event_data(stream, pos + 1) = <<>>
                               THEN UNCHANGED <<pc, outcome, returns, json_response>>
                               ELSE LET parsed == from_str(event_data(stream, pos + 1))
                                    IN IF parsed.ok /\ has_result_or_error(parsed.v)
                                       THEN /\ json_response' = Some(parsed.v)
                                            /\ Return(ok_or_sse_error(Some(parsed.v)))
                                       ELSE IF ~parsed.ok /\ debug_slice_panics(item)
                                       THEN /\ pc' = "panicked"
                                            /\ UNCHANGED <<outcome, returns,
                                                           json_response>>
                                       ELSE UNCHANGED <<pc, outcome, returns,
                                                        json_response>>
    /\ UNCHANGED <<base_url, log_debug, arg, ret, calls, request, attempt, last_error, error,
                   response, posts, sleeps, responses>>
    /\ UNCHANGED server_vars

Next ==
    \/ \E req \in Requests : Call(req)
    \/ Send
    \/ \E r \in Backend : Receive(r)
    \/ Wake
    \/ SseNext

Spec == Init /\ [][Next]_vars

\* every step of a call is taken once it can be: the runtime polls the future
\* to completion, and each send, sleep and stream read is assumed to end
Progress == Send \/ (\E r \in Backend : Receive(r)) \/ Wake \/ SseNext

FairSpec == Spec /\ WF_vars(Progress)

(***************************************************************************)
(* The reducer on its own: a call whose first attempt was answered 200      *)
(* text/event-stream with an arbitrary stream of at most MaxStream items.   *)
(***************************************************************************)
InitSse ==
    /\ base_url = BUN_DOCS_API
    /\ log_debug \in BOOLEAN
    /\ arg = None
    /\ ret = None
    /\ pc = "sse"
    /\ calls = 1
    /\ request = REQ_TOOLS_CALL
    /\ attempt = 1
    /\ last_error = None
    /\ error = None
    /\ \E s \in StreamsUpTo(MaxStream) : response = Response(200, HDR_SSE, SseBody(s))
    /\ pos = 0
    /\ json_response = None
    /\ outcome = None
    /\ posts = <<[attempt |-> 1, url |-> base_url, body |-> request]>>
    /\ sleeps = <<>>
    /\ responses = <<[kind |-> "response", status |-> 200]>>
    /\ returns = 0
    /\ FreshServer

SpecSse == InitSse /\ [][SseNext]_vars

FairSpecSse == SpecSse /\ WF_vars(SseNext)

(***************************************************************************)
(* is_transient_status on its own, applied to every code a StatusCode can   *)
(* hold (100..=999).                                                        *)
(***************************************************************************)
StatusCodes == 100..999

InitStatus ==
    /\ base_url = BUN_DOCS_API
    /\ log_debug = FALSE
    /\ arg \in {Some(code) : code \in StatusCodes}
    /\ ret = None
    /\ Fresh
    /\ FreshServer

Classify ==
    /\ arg.some
    /\ ret = None
    /\ ret' = Some(is_transient_status(arg.v))
    /\ UNCHANGED <<base_url, log_debug, arg, pc, calls, request, attempt, last_error, error,
                   response, pos, json_response, outcome, posts, sleeps, responses,
                   returns>>
    /\ UNCHANGED server_vars

SpecStatus == InitStatus /\ [][Classify]_vars


(***************************************************************************)
(* The server loop of main: one message is read, parsed, dispatched and     *)
(* answered before the next one is read.                                    *)
(***************************************************************************)
\* the handler has returned and its response is out: what its forward_request
\* call held and did is gone
Dropped ==
    /\ pc' = "idle"
    /\ request' = JNull
    /\ attempt' = 0
    /\ last_error' = None
    /\ error' = None
    /\ response' = NoResponse
    /\ pos' = 0
    /\ json_response' = None
    /\ outcome' = None
    /\ posts' = <<>>
    /\ sleeps' = <<>>
    /\ responses' = <<>>
    /\ returns' = 0
    /\ UNCHANGED calls

\* transport.read_message().await completes and the loop body runs up to its
\* next await: the write of a response, or the send inside forward_request
ReadMessage(input) ==
    /\ main_pc = "read"
    /\ nread < MaxMessages
    /\ nread' = nread + 1
    /\ write_result' = None
    /\ LET msg == read_message(input)
       IN /\ line' = (IF read_line(input).ok THEN read_line(input).v.line ELSE <<>>)
          /\ message' = Some(msg)
          /\ IF after_read(msg) # "handle"
             THEN \* Err(e): continue, Ok(None): break
                  /\ main_pc' = after_read(msg)
                  /\ inbound' = None
                  /\ reply' = None
                  /\ UNCHANGED engine_vars
             ELSE LET parsed == from_str_request(msg.v.v)
                  IN IF ~parsed.ok
                     THEN /\ inbound' = None
                          /\ reply' = Some(parse_error_response(parsed.e))
                          /\ main_pc' = "write"
                          /\ UNCHANGED engine_vars
                     ELSE LET handled == dispatch(parsed.v)
                          IN /\ inbound' = Some(parsed.v)
                             /\ IF handled.forward
                                THEN /\ Enter(handled.body)
                                     /\ reply' = None
                                     /\ main_pc' = "forward"
                                ELSE /\ reply' = Some(handled.response)
                                     /\ main_pc' = "write"
                                     /\ UNCHANGED engine_vars
    /\ UNCHANGED <<base_url, log_debug, arg, ret, nwritten>>

\* the forward_request awaited by a handler has returned: the handler builds
\* its response and the loop goes on to write it
HandlerReturn ==
    /\ main_pc = "forward"
    /\ pc = "done"
    /\ reply' = Some(handler_response(inbound.v, outcome.v))
    /\ main_pc' = "write"
    /\ UNCHANGED <<base_url, log_debug, arg, ret, pc, calls, request, attempt, last_error, error,
                   response, pos, json_response, outcome, posts, sleeps, responses,
                   returns, nread, line, message, inbound, nwritten, write_result>>

\* transport.write_message(&response_str).await completes
WriteMessage(ok) ==
    /\ main_pc = "write"
    /\ write_result' = Some(ok)
    /\ nwritten' = IF ok THEN nwritten + 1 ELSE nwritten
    /\ main_pc' = after_write(inbound.some, ok)
    /\ Dropped
    /\ UNCHANGED <<base_url, log_debug, arg, ret, nread, line, message, inbound, reply>>

NextServer ==
    \/ \E input \in StdinItems : ReadMessage(input)
    \/ Send
    \/ \E r \in ServerBackend : Receive(r)
    \/ Wake
    \/ SseNext
    \/ HandlerReturn
    \/ \E ok \in BOOLEAN : WriteMessage(ok)

SpecServer == Init /\ [][NextServer]_vars

\* how the process has ended, if it has: main returns Ok(()) after the loop,
\* and a panic inside forward_request unwinds through main
exit_code ==
    IF pc = "panicked" THEN Some(101)
    ELSE IF main_pc = "stopped" THEN Some(0)
    ELSE None


(***************************************************************************)
(* parse_bun_docs_uri on its own, applied to every beginning of             *)
(* `bun://docs?query=` followed by at most MaxTail more characters, and to   *)
(* some strings of another shape.                                           *)
(***************************************************************************)
MaxTail == 2

UriAlphabet == {"a", "&", "?"}

Tails(n) == UNION {[1..k -> UriAlphabet] : k \in 0..n}

Prefixes(str) == {SubSeq(str, 1, k) : k \in 0..Len(str)}

URI_UPPER == <<"B", "U", "N", ":", "/", "/", "d", "o", "c", "s">>

URI_PADDED == <<" ", "b", "u", "n", ":", "/", "/", "d", "o", "c", "s">>

UriInputs ==
    {prefix \o tail : prefix \in Prefixes(BUN_DOCS_QUERY), tail \in Tails(MaxTail)}
        \cup {URI_OTHER, URI_UPPER, URI_PADDED}

\* the state in which a helper is about to be applied to one of `inputs`
InitHelper(inputs) ==
    /\ base_url = BUN_DOCS_API
    /\ log_debug = FALSE
    /\ arg \in {Some(x) : x \in inputs}
    /\ ret = None
    /\ Fresh
    /\ FreshServer

\* the helper is applied and `result` is what it gave
Applied(result) ==
    /\ arg.some
    /\ ret = None
    /\ ret' = Some(result)
    /\ UNCHANGED <<base_url, log_debug, arg>>
    /\ UNCHANGED engine_vars
    /\ UNCHANGED server_vars

InitUri == InitHelper(UriInputs)

ParseUri == Applied(parse_bun_docs_uri(arg.v))

SpecUri == InitUri /\ [][ParseUri]_vars

(***************************************************************************)
(* main_content_type on its own, applied to header maps without a content   *)
(* type and with every content type of at most MaxValue characters.         *)
(***************************************************************************)
MaxValue == 3

ValueAlphabet == {"T", "x", ";", " ", "BIN"}

HeaderValues == UNION {[1..k -> ValueAlphabet] : k \in 0..MaxValue}

HDR_UPPER ==
    <<Header("content-type", <<"T", "E", "X", "T", "/", "E", "V", "E", "N", "T", "-", "S", "T", "R", "E", "A", "M">>)>>

HeaderMaps ==
    {<<Header("content-type", value)>> : value \in HeaderValues}
    \cup {<<Header("content-length", <<"2">>)>>,
          <<Header("content-type", <<"x">>), Header("content-type", <<"T">>)>>}
    \cup {HDR_NONE, HDR_PLAIN, HDR_JSON, HDR_SSE, HDR_SSE_UPPER, HDR_BINARY, HDR_UPPER}

InitContentType == InitHelper(HeaderMaps)

MainContentType == Applied(main_content_type(arg.v))

SpecContentType == InitContentType /\ [][MainContentType]_vars

(***************************************************************************)
(* The non-success arm of forward_request on its own, for bodies around     *)
(* the two limits.  A body is `pad` ASCII bytes followed by the bytes of    *)
(* `tail`; a decoded string is `pad` ASCII characters followed by the       *)
(* characters of `tail`.                                                    *)
(***************************************************************************)
MaxBodyTail == 3

ByteClasses == {"a", "L2", "L3", "C", "X"}

BodyTails == UNION {[1..n -> ByteClasses] : n \in 0..MaxBodyTail}

BodyPads ==
    {0} \cup {SNIPPET_MAX + d : d \in (0 - 3)..1}
        \cup {MAX_ERROR_BODY_SIZE + d : d \in (0 - 3)..1}

ErrorBodies == [pad : BodyPads, tail : BodyTails]

\* Bytes::len
bytes_len(b) == b.pad + Len(b.tail)

\* response.bytes().await: the whole body the server sends is collected
response_bytes_all(b) == b

\* &bytes[..MAX_ERROR_BODY_SIZE] when the body is longer than that
limited_bytes(b) ==
    IF bytes_len(b) > MAX_ERROR_BODY_SIZE
    THEN LET p == Min(b.pad, MAX_ERROR_BODY_SIZE)
         IN [pad |-> p, tail |-> SubSeq(b.tail, 1, MAX_ERROR_BODY_SIZE - p)]
    ELSE b

\* String::from_utf8_lossy: the ASCII bytes decode to themselves
lossy_body(b) == [pad |-> b.pad, tail |-> from_utf8_lossy(b.tail)]

\* str::len of a decoded body
text_len(t) == t.pad + str_len(t.tail)

\* truncate_utf8 cutting in the middle of a character
body_snippet_split(t, max_len) ==
    IF text_len(t) <= max_len THEN t
    ELSE IF t.pad >= max_len THEN [pad |-> max_len, tail |-> <<>>]
    ELSE [pad |-> t.pad,
          tail |-> take_chars(t.tail, max_len - t.pad)
                     \o <<[n |-> max_len - t.pad - str_len(take_chars(t.tail, max_len - t.pad)),
                          c |-> "split"]>>]

\* truncate_utf8: the characters whose end position is at or before max_len
body_snippet(t, max_len) ==
    IF text_len(t) <= max_len THEN t
    ELSE IF t.pad >= max_len THEN [pad |-> max_len, tail |-> <<>>]
    ELSE [pad |-> t.pad, tail |-> take_chars(t.tail, max_len - t.pad)]

\* what the non-success arm reads of the body, decodes, and puts in the error
error_body(b) ==
    LET bytes == response_bytes_all(b)
        body == lossy_body(limited_bytes(bytes))
    IN [read |-> bytes_len(bytes),
        decoded |-> bytes_len(limited_bytes(bytes)),
        body |-> body,
        snippet |-> body_snippet(body, SNIPPET_MAX)]

InitErrorBody == InitHelper(ErrorBodies)

ReadErrorBody == Applied(error_body(arg.v))

SpecErrorBody == InitErrorBody /\ [][ReadErrorBody]_vars

(***************************************************************************)
(* backoff_delay_ms on its own, for attempts far beyond MAX_RETRIES.        *)
(***************************************************************************)
MaxAttempt == 68

\* what backoff_delay_ms can do in the builds of the crate: with overflow
\* checks a shift by 64 or more panics
backoff_delay_ms_outcomes(n) ==
    {Ok(backoff_delay_ms(n))}
    \cup (IF shl_overflows(as_u32(saturating_sub(n, 1)))
          THEN {Err([panic |-> "attempt to shift left with overflow"])}
          ELSE {})

InitBackoff == InitHelper(1..MaxAttempt)

BackoffDelay == \E o \in backoff_delay_ms_outcomes(arg.v) : Applied(o)

SpecBackoff == InitBackoff /\ [][BackoffDelay]_vars

(***************************************************************************)
(* The constructors of JsonRpcResponse on their own, each response built    *)
(* being serialized and the text parsed again.                              *)
(***************************************************************************)
ResponseIds == {JNull, JNum("1"), JStr("abc")}

ResultValues ==
    {JNull, JBool(FALSE), JStr("ok"), JArr(<<>>), JObj(EmptyMap),
     JObj([result |-> JNull]), JObj([error |-> JObj([code |-> JNum("-32000")])]),
     JObj([tools |-> JArr(<<JObj([name |-> JStr("SearchBun")])>>)])}

ErrorCodes ==
    {JSONRPC_PARSE_ERROR, JSONRPC_INVALID_PARAMS, JSONRPC_INTERNAL_ERROR,
     JSONRPC_METHOD_NOT_FOUND, 0}

ErrorMessages ==
    {format("Missing params", None),
     format("Method not found: {method}", [method |-> JStr("foo/bar")])}

DataValues == {JNull, JStr("details"), JObj([data |-> JArr(<<JNum("1")>>)])}

\* the calls of the three constructors
ConstructorCalls ==
    {[fn |-> "success", id |-> id, result |-> result] :
        id \in ResponseIds, result \in ResultValues}
    \cup {[fn |-> "error", id |-> id, code |-> code, message |-> text] :
            id \in ResponseIds, code \in ErrorCodes, text \in ErrorMessages}
    \cup {[fn |-> "error_with_data", id |-> id, code |-> code, message |-> text,
           data |-> data] :
            id \in ResponseIds, code \in ErrorCodes, text \in ErrorMessages,
            data \in DataValues}

\* the constructor named by a call, applied to its arguments
construct(call) ==
    CASE call.fn = "success" -> JsonRpcResponse_success(call.id, call.result)
      [] call.fn = "error" -> JsonRpcResponse_error(call.id, call.code, call.message)
      [] call.fn = "error_with_data" ->
            JsonRpcResponse_error_with_data(call.id, call.code, call.message, call.data)

\* a response is built, written with to_string and read back with from_str
round_trip(call) ==
    LET built == construct(call)
        text == response_to_tokens(built)
    IN [built |-> built, text |-> text, reparsed |-> from_str(text)]

InitResponse == InitHelper(ConstructorCalls)

Construct == Applied(round_trip(arg.v))

SpecResponse == InitResponse /\ [][Construct]_vars

\* the constructors on their own together with the server loop, which builds
\* every response it writes with them
NextWire ==
    \/ Construct
    \/ \E input \in StdinItems : arg = None /\ ReadMessage(input)
    \/ Send
    \/ \E r \in ServerBackend : Receive(r)
    \/ Wake
    \/ SseNext
    \/ HandlerReturn
    \/ \E ok \in BOOLEAN : WriteMessage(ok)

SpecWire == (Init \/ InitResponse) /\ [][NextWire]_vars

(***************************************************************************)
(* Two forward_request calls on one client, as two futures polled by one    *)
(* executor: the variables of the call hold the locals of the future being  *)
(* polled, `arg` holds the locals of the other one, and `ret` names the one *)
(* being polled.  The client is shared: base_url, and the count of calls.   *)
(***************************************************************************)
MOCK_URL == "http://127.0.0.1:1234/"

\* the locals of the future being polled
locals ==
    [pc |-> pc, request |-> request, attempt |-> attempt, last_error |-> last_error,
     error |-> error, response |-> response, pos |-> pos,
     json_response |-> json_response, outcome |-> outcome, posts |-> posts,
     sleeps |-> sleeps, responses |-> responses, returns |-> returns]

\* the locals of a future that has not been polled yet
FreshLocals ==
    [pc |-> "idle", request |-> JNull, attempt |-> 0, last_error |-> None,
     error |-> None, response |-> NoResponse, pos |-> 0, json_response |-> None,
     outcome |-> None, posts |-> <<>>, sleeps |-> <<>>, responses |-> <<>>,
     returns |-> 0]

PairBackend ==
    {Response(503, HDR_PLAIN, BODY_WORDS), Response(404, HDR_NONE, BODY_UTF8),
     Response(200, HDR_JSON, BODY_RESULT), Response(200, HDR_SSE, BODY_SSE_ERROR),
     NetError(TRUE, FALSE, FALSE)}

InitPair ==
    /\ base_url \in {BUN_DOCS_API, MOCK_URL}
    /\ log_debug = FALSE
    /\ arg = Some([id |-> 2, locals |-> FreshLocals])
    /\ ret = Some(1)
    /\ Fresh
    /\ FreshServer

\* the future being polled is pending at an await (or has not started, or has
\* returned) and the executor polls the other one
Switch ==
    /\ arg.some
    /\ ret.some
    /\ pc \in {"idle", "inflight", "sleeping", "sse", "done"}
    /\ arg' = Some([id |-> ret.v, locals |-> locals])
    /\ ret' = Some(arg.v.id)
    /\ pc' = arg.v.locals.pc
    /\ request' = arg.v.locals.request
    /\ attempt' = arg.v.locals.attempt
    /\ last_error' = arg.v.locals.last_error
    /\ error' = arg.v.locals.error
    /\ response' = arg.v.locals.response
    /\ pos' = arg.v.locals.pos
    /\ json_response' = arg.v.locals.json_response
    /\ outcome' = arg.v.locals.outcome
    /\ posts' = arg.v.locals.posts
    /\ sleeps' = arg.v.locals.sleeps
    /\ responses' = arg.v.locals.responses
    /\ returns' = arg.v.locals.returns
    /\ UNCHANGED <<base_url, log_debug, calls>>
    /\ UNCHANGED server_vars

NextPair ==
    \/ \E req \in Requests : Call(req)
    \/ Switch
    \/ Send
    \/ \E r \in PairBackend : Receive(r)
    \/ Wake
    \/ SseNext

SpecPair == InitPair /\ [][NextPair]_vars

(***************************************************************************)
(* Properties of forward_request.                                          *)
(***************************************************************************)
TransientCodes == {429, 500, 502, 503, 504}

Last(seq) == seq[Len(seq)]

IsStatus(r) == r.kind = "response"

VAL_RESULT == JObj([result |-> JObj([tools |-> JArr(<<>>)])])

VAL_ERROR == JObj([error |-> JObj([code |-> JNum("-32000")])])

VAL_RESULT_NULL == JObj([result |-> JNull])

VAL_OTHER == JObj([jsonrpc |-> JStr("2.0")])

\* the texts that are valid JSON, and the value each one stands for
JsonTexts == {TXT_RESULT, TXT_ERROR, TXT_RESULT_NULL, TXT_OTHER}

ValueOf(text) ==
    CASE text = TXT_RESULT -> VAL_RESULT
      [] text = TXT_ERROR -> VAL_ERROR
      [] text = TXT_RESULT_NULL -> VAL_RESULT_NULL
      [] text = TXT_OTHER -> VAL_OTHER

\* the header sets under which a 2xx body is read as plain JSON
JsonHeaders == {HDR_NONE, HDR_JSON, HDR_BINARY}

\* C1: a call makes at least 1 and at most 3 attempts, and attempt i sends
\* exactly one POST (the i-th) which gets at most one answer.
C1_AttemptBudget ==
    /\ Len(posts) <= 3
    /\ \A i \in DOMAIN posts : posts[i].attempt = i
    /\ Len(responses) <= Len(posts)
    /\ Len(posts) <= Len(responses) + 1
    /\ pc \in {"inflight", "sleeping", "sse", "done", "panicked"} =>
          /\ Len(posts) >= 1
          /\ Len(posts) = attempt
    /\ pc = "build" => Len(posts) = attempt - 1
    /\ pc = "done" => Len(responses) = Len(posts)

C1_Witness == pc = "done" /\ Len(posts) = 3 /\ Len(responses) = 3

\* C2: a transient status on all 3 attempts ends the call with the status
\* error of the last answer, after 3 POSTs and the two sleeps 200 ms, 400 ms;
\* there is no sleep after the third attempt.
C2_RetryExhaustion ==
    (/\ Len(responses) = 3
     /\ \A i \in 1..3 : IsStatus(responses[i]) /\ responses[i].status \in TransientCodes)
    => /\ pc = "done"
       /\ outcome.some
       /\ ~outcome.v.ok
       /\ outcome.v.e.msg = "Bun Docs API error"
       /\ outcome.v.e.status = responses[3].status
       /\ Len(posts) = 3
       /\ sleeps = <<200, 400>>

C2_Witness ==
    /\ pc = "done"
    /\ Len(responses) = 3
    /\ \A i \in 1..3 : IsStatus(responses[i]) /\ responses[i].status = 503
    /\ outcome.some /\ ~outcome.v.ok /\ outcome.v.e.status = 503
    /\ sleeps = <<200, 400>>

\* C3: after a transient status on attempt 1 the call sleeps once and goes on
\* to attempt 2, and a 2xx answer there whose body is decodable JSON ends the
\* call with that decoded value, after 2 POSTs and 1 sleep.
C3_RetryThenSucceed ==
    (Len(responses) >= 1 /\ IsStatus(responses[1]) /\ responses[1].status \in TransientCodes)
    => /\ Len(responses) = 1 =>
             pc \in {"sleeping", "build", "inflight"} /\ Len(sleeps) = 1
       /\ (/\ Len(responses) = 2
           /\ IsStatus(response)
           /\ response.status \in 200..299
           /\ response.headers \in JsonHeaders
           /\ response.body.read_ok
           /\ response.body.json \in JsonTexts)
          => /\ pc = "done"
             /\ outcome = Some(Ok(ValueOf(response.body.json)))
             /\ Len(posts) = 2
             /\ Len(sleeps) = 1

C3_Witness ==
    /\ pc = "done"
    /\ Len(responses) = 2
    /\ responses[1] = [kind |-> "response", status |-> 429]
    /\ responses[2] = [kind |-> "response", status |-> 200]
    /\ outcome = Some(Ok(VAL_RESULT))
    /\ Len(sleeps) = 1

C5_SendFailure ==
    (responses # <<>> /\ Last(responses).kind = "error")
    => LET n == Len(responses)
           e == Last(responses)
       IN IF (e.is_connect \/ e.is_timeout \/ e.is_request) /\ n < 3
          THEN /\ Len(sleeps) = n
               /\ sleeps[n] = (IF n = 1 THEN 200 ELSE 400)
               /\ pc \in {"sleeping", "build", "inflight"}
               /\ pc = "sleeping" => attempt = n
               /\ pc \in {"build", "inflight"} => attempt = n + 1
          ELSE /\ pc = "done"
               /\ outcome = Some(Err(SendError(e)))
               /\ Len(sleeps) = n - 1
               /\ Len(posts) = n

C5_Witness ==
    /\ pc = "inflight"
    /\ attempt = 3
    /\ responses = <<NetError(FALSE, FALSE, TRUE), NetError(FALSE, FALSE, TRUE)>>
    /\ sleeps = <<200, 400>>

C7_ResolvesNeverAborts ==
    /\ pc # "panicked"
    /\ returns <= 1
    /\ pc = "done" => returns = 1 /\ outcome.some


(***************************************************************************)
(* Properties of parse_sse_response.                                       *)
(***************************************************************************)
\* the call is in, or went through, the reducer
SsePath ==
    /\ IsStatus(response)
    /\ response.status \in 200..299
    /\ response.headers \in {HDR_SSE, HDR_SSE_UPPER}
    /\ pc \in {"sse", "done", "panicked"}

\* an event of type message/completion (or none) whose data is a JSON object
\* with a top-level `result` or `error`
Qualifies(item) ==
    /\ item.ok
    /\ item.event \in {"", "message", "completion"}
    /\ item.data \in {TXT_RESULT, TXT_RESULT_NULL, TXT_ERROR}

C10_Step ==
    (SsePath /\ pc = "sse" /\ pos < Len(response.body.stream)
        /\ response.body.stream[pos + 1].ok /\ pos' = pos + 1)
    => LET it == response.body.stream[pos + 1]
       IN /\ it.event \notin {"", "message", "completion"} =>
                /\ pc' = "sse"
                /\ outcome' = outcome
                /\ json_response' = json_response
                /\ returns' = returns
          /\ it.event = "" =>
                IF it.data \in {TXT_RESULT, TXT_RESULT_NULL, TXT_ERROR}
                THEN pc' = "done" /\ outcome' = Some(Ok(ValueOf(it.data)))
                ELSE pc' # "done" /\ outcome' = outcome

\* C10: every step of the reducer treats the event type as C10_Step says.
C10_EventTypes == [][C10_Step]_vars

C10_Witness ==
    /\ SsePath
    /\ pc = "done"
    /\ response.body.stream = <<Event("heartbeat", TXT_RESULT), Event("", TXT_ERROR)>>
    /\ pos = 2
    /\ outcome = Some(Ok(VAL_ERROR))


\* C11: taking a message/completion event (or one of absent type) whose data
\* is empty, is not valid JSON, or is JSON without `result` and `error` only
\* moves the reducer on to the next item: nothing is returned and nothing
\* aborts.
C11_Step ==
    (SsePath /\ pc = "sse" /\ pos < Len(response.body.stream)
        /\ response.body.stream[pos + 1].ok /\ pos' = pos + 1)
    => LET it == response.body.stream[pos + 1]
       IN (/\ it.event \in {"", "message", "completion"}
           /\ it.data \in {<<>>, TXT_HALF, TXT_TAIL, TXT_OTHER})
          => /\ pc' = "sse"
             /\ outcome' = outcome
             /\ json_response' = json_response
             /\ returns' = returns

\* C11: every step of the reducer skips an unusable event as C11_Step says.
C11_SkipsUnusable == [][C11_Step]_vars

\* the items that decide a stream: the qualifying events and the stream errors
RECURSIVE Deciding(_)

Deciding(stream) ==
    IF stream = <<>> THEN <<>>
    ELSE IF ~Head(stream).ok \/ Qualifies(Head(stream))
         THEN <<Head(stream)>> \o Deciding(Tail(stream))
         ELSE Deciding(Tail(stream))

\* what the first item of a stream of deciding items gives (C8, C9)
FirstDecides(stream) ==
    IF stream # <<>> /\ Head(stream).ok THEN Ok(ValueOf(Head(stream).data))
    ELSE Err(SseError)

SseHeaders == {HDR_SSE, HDR_SSE_UPPER, HDR_SSE_LONGER}

\* C13: a 2xx answer goes to the reducer, and the call returns what the
\* reducer gives, exactly when its content type, cut at `;`, trimmed and
\* lowercased, starts with text/event-stream; with any other content type,
\* or none, the body is decoded as JSON at once and that is returned.
C13_ContentTypeBranch ==
    (IsStatus(response) /\ response.status \in 200..299)
    => IF response.headers \in SseHeaders
       THEN /\ pc \in {"sse", "done", "panicked"}
            /\ pc = "done" =>
                  outcome = Some(FirstDecides(Deciding(response.body.stream)))
       ELSE /\ pc = "done"
            /\ pos = 0
            /\ outcome = Some(IF response.body.read_ok /\ response.body.json \in JsonTexts
                              THEN Ok(ValueOf(response.body.json))
                              ELSE Err(JsonError))

C13_Witness ==
    /\ pc = "done"
    /\ response = Response(200, HDR_SSE_UPPER, BODY_SSE_RESULT)
    /\ pos = 3
    /\ outcome = Some(Ok(VAL_RESULT))


(***************************************************************************)
(* Properties of the dispatcher and the server loop.                        *)
(***************************************************************************)
\* the text of the line being handled, <<>> when no line was read
LineText ==
    IF message.some /\ message.v.ok /\ message.v.v.some THEN message.v.v.v ELSE <<>>

\* the code of the error of a response, 0 for a success
ErrorCode(res) == IF res.error.some THEN res.error.v.code ELSE 0

\* no forward_request call was made for the message being handled
NoForward == pc = "idle" /\ posts = <<>> /\ request = JNull

KnownMethods == {"initialize", "tools/list", "tools/call", "resources/list", "resources/read"}

\* C14: a request whose method is not, character for character, one of the
\* five known names is answered by an error -32601 with the request's id and
\* no call to forward_request; a request with a known name never is, it gets
\* the fixed payload of its static handler or goes to its forwarding handler.
C14_ClosedMethodSet ==
    \A id \in IdTokens, shape \in RequestShapes :
        LineText = RequestText(id, shape[1], shape[2])
        => /\ inbound.some
           /\ IF shape[1] \notin KnownMethods
              THEN /\ reply.some
                   /\ ErrorCode(reply.v) = JSONRPC_METHOD_NOT_FOUND
                   /\ reply.v.result = None
                   /\ to_tokens(reply.v.id) = <<id>>
                   /\ NoForward
              ELSE /\ reply.some => ErrorCode(reply.v) # JSONRPC_METHOD_NOT_FOUND
                   /\ shape[1] = "initialize" => reply.v.result = Some(INIT_RESULT) /\ NoForward
                   /\ shape[1] = "tools/list" => reply.v.result = Some(TOOLS) /\ NoForward
                   /\ shape[1] = "resources/list" =>
                         reply.v.result = Some(RESOURCES) /\ NoForward
                   /\ (shape[1] = "tools/call" /\ main_pc \in {"forward", "write"}) =>
                         ~NoForward /\ Get(request, "method") = Some(JStr("tools/call"))
                   /\ (shape[1] = "resources/read" /\ main_pc \in {"forward", "write"}) =>
                         \/ NoForward /\ ErrorCode(reply.v) = JSONRPC_INVALID_PARAMS
                         \/ ~NoForward /\ Get(request, "method") = Some(JStr("tools/call"))

C14_Witness ==
    /\ LineText = RequestText(S("abc"), "Tools/Call", PARAMS_SEARCH)
    /\ reply.some
    /\ ErrorCode(reply.v) = JSONRPC_METHOD_NOT_FOUND
    /\ reply.v.id = JStr("abc")
    /\ NoForward
    /\ write_result = Some(TRUE)

\* C15: the id written in the response to a request that parsed is, token for
\* token, the id of the request's text: a number, a string or null, for every
\* method, for successes and for errors.
C15_IdVerbatim ==
    /\ \A id \in IdTokens, shape \in RequestShapes :
          (LineText = RequestText(id, shape[1], shape[2]) /\ reply.some)
          => to_tokens(reply.v.id) = <<id>>
    /\ (LineText = TXT_REQUEST_SEQ /\ reply.some) => to_tokens(reply.v.id) = <<N("1")>>

C15_Witness ==
    /\ LineText = RequestText(S("abc"), "resources/read", UriParams(T(URI_PLAIN)))
    /\ pc = "done"
    /\ ~outcome.v.ok
    /\ reply.some
    /\ reply.v.error.some
    /\ reply.v.id = JStr("abc")
    /\ main_pc = "write"

\* C16: once forward_request has returned an error to tools/call or
\* resources/read, the response of the handler is an error -32603 with the
\* request's id whose message is "Internal error: " followed by the error's
\* text, and that response is what goes to the write.
C16_EngineFailureWrapped ==
    (pc = "done" /\ ~outcome.v.ok /\ main_pc = "write")
    => /\ inbound.some
       /\ inbound.v.method \in {JStr("tools/call"), JStr("resources/read")}
       /\ reply.some
       /\ reply.v.result = None
       /\ reply.v.id = inbound.v.id
       /\ ErrorCode(reply.v) = JSONRPC_INTERNAL_ERROR
       /\ reply.v.error.v.message = format("Internal error: {e}", outcome.v.e)

C16_Witness ==
    /\ pc = "done"
    /\ Len(posts) = MAX_RETRIES
    /\ outcome.v = Err(StatusError(503, main_content_type(HDR_PLAIN), HDR_PLAIN,
                                   BODY_WORDS.bytes))
    /\ inbound.v.method = JStr("tools/call")
    /\ reply.some
    /\ ErrorCode(reply.v) = JSONRPC_INTERNAL_ERROR
    /\ main_pc = "write"

\* C17: a line that is no JSON-RPC request is answered by an error -32700 with
\* id null, without a parsed request, a handler or a forward_request call, and
\* whatever becomes of the write the loop is back at reading.
C17_ParseError ==
    LineText \in MalformedTexts
    => /\ inbound = None
       /\ reply = Some(JsonRpcResponse_error(JNull, JSONRPC_PARSE_ERROR,
                           format("Parse error: {e}", reply.v.error.v.message.arg)))
       /\ NoForward
       /\ main_pc = (IF write_result.some THEN "read" ELSE "write")

C17_Witness ==
    /\ LineText = TXT_NO_ID
    /\ reply.some
    /\ ErrorCode(reply.v) = JSONRPC_PARSE_ERROR
    /\ reply.v.id = JNull
    /\ write_result = Some(FALSE)
    /\ main_pc = "read"
    /\ nread < MaxMessages

\* C18: when forward_request has returned a value to tools/call, the result
\* of the response is the value's `result` member if it has one (a null one
\* included), and the whole value if it has none.
C18_ResultUnwrapped ==
    (pc = "done" /\ outcome.v.ok /\ main_pc = "write"
        /\ inbound.v.method = JStr("tools/call"))
    => /\ reply.some
       /\ reply.v.error = None
       /\ reply.v.id = inbound.v.id
       /\ outcome.v.v \in {VAL_RESULT, VAL_RESULT_NULL, VAL_ERROR, VAL_OTHER}
       /\ outcome.v.v = VAL_RESULT => reply.v.result = Some(JObj([tools |-> JArr(<<>>)]))
       /\ outcome.v.v = VAL_RESULT_NULL => reply.v.result = Some(JNull)
       /\ outcome.v.v = VAL_ERROR => reply.v.result = Some(VAL_ERROR)
       /\ outcome.v.v = VAL_OTHER => reply.v.result = Some(VAL_OTHER)

C18_Witness ==
    /\ pc = "done"
    /\ inbound.v.method = JStr("tools/call")
    /\ outcome = Some(Ok(VAL_RESULT_NULL))
    /\ reply.some
    /\ reply.v.result = Some(JNull)
    /\ main_pc = "write"

\* C19: the body tools/call gives to forward_request has the id, the method
\* and the params of the request as it was read: the same members with the
\* same values, and no params member when the request had none.
C19_ForwardedUnchanged ==
    \A id \in IdTokens, params \in {PARAMS_SEARCH, PARAMS_NULL, <<>>} :
        (LineText = RequestText(id, "tools/call", params) /\ ~NoForward)
        => LET sent == from_str(LineText).v
           IN /\ Get(request, "id") = Get(sent, "id")
              /\ Get(request, "method") = Get(sent, "method")
              /\ Get(request, "params") = Get(sent, "params")

\* the params of resources/read that are not a uri of the grammar
BadReadParams ==
    {<<>>, PARAMS_NULL, PARAMS_EMPTY, UriParams(N("7")), UriParams(T(URI_NO_QUERY)),
     UriParams(T(URI_OTHER)), UriParams(T(<<>>))}

\* C20: resources/read without params, without params.uri, with a uri that is
\* no string or with a uri outside the grammar is answered by an error -32602
\* with the request's id, and forward_request is not called.
C20_InvalidParams ==
    \A id \in IdTokens, params \in BadReadParams :
        LineText = RequestText(id, "resources/read", params)
        => /\ reply.some
           /\ reply.v.result = None
           /\ ErrorCode(reply.v) = JSONRPC_INVALID_PARAMS
           /\ to_tokens(reply.v.id) = <<id>>
           /\ NoForward

C20_Witness ==
    /\ LineText = RequestText(N("1"), "resources/read", UriParams(T(URI_NO_QUERY)))
    /\ reply.some
    /\ ErrorCode(reply.v) = JSONRPC_INVALID_PARAMS
    /\ reply.v.error.v.message = format("Invalid URI format: {uri}", [uri |-> URI_NO_QUERY])
    /\ NoForward
    /\ write_result = Some(TRUE)


(***************************************************************************)
(* Properties of the helpers of the dispatcher and of the protocol types.   *)
(***************************************************************************)
\* C21: parse_bun_docs_uri accepts `bun://docs`, with the empty query, and
\* any string beginning with `bun://docs?query=`, with what follows the
\* prefix as the query, be it empty or made of `&` and `?`; it rejects every
\* other string, the empty one and `bun://docs?` among them.
C21_UriGrammar ==
    ret.some
    => LET uri == arg.v
           query == ret.v
           has_prefix == \E tail \in Tails(MaxTail) : uri = BUN_DOCS_QUERY \o tail
       IN /\ query.ok <=> (uri = BUN_DOCS \/ has_prefix)
          /\ uri = BUN_DOCS => query = Ok(<<>>)
          /\ has_prefix => uri = BUN_DOCS_QUERY \o query.v
          /\ uri \in {<<>>, URI_NO_QUERY, URI_OTHER, URI_UPPER, URI_PADDED} => ~query.ok
          /\ ~query.ok => query.e = format("Invalid URI format: {uri}", [uri |-> uri])

C21_Witness ==
    /\ arg = Some(BUN_DOCS_QUERY \o <<"&", "?">>)
    /\ ret = Some(Ok(<<"&", "?">>))


\* the query of the two uris of the grammar that are read
QueryOf(uri) == IF uri = URI_PLAIN THEN <<>> ELSE <<"a", "&", "b", "?">>

\* C22: resources/read with a uri of the grammar gives forward_request a
\* tools/call of SearchBun whose arguments.query is the query of the uri, with
\* the request's id, and that body is what every attempt posts; when
\* forward_request returns a value, the response is a success whose result
\* has one content entry: the uri as requested, application/json, and as text
\* the serialization of the whole value returned, `result` member and all.
C22_ResourceRead ==
    \A id \in IdTokens, uri \in {URI_QUERY, URI_PLAIN} :
        (LineText = RequestText(id, "resources/read", UriParams(T(uri)))
            /\ main_pc \in {"forward", "write"})
        => /\ Get(request, "method") = Some(JStr("tools/call"))
           /\ to_tokens(request.m.id) = <<id>>
           /\ request.m.params =
                 JObj([name |-> JStr("SearchBun"),
                       arguments |-> JObj([query |-> JText(QueryOf(uri))])])
           /\ \A i \in 1..Len(posts) : posts[i].body = request
           /\ (main_pc = "write" /\ outcome.v.ok)
              => /\ reply.v.error = None
                 /\ to_tokens(reply.v.id) = <<id>>
                 /\ LET contents == reply.v.result.v.m.contents.a
                    IN /\ DOMAIN reply.v.result.v.m = {"contents"}
                       /\ Len(contents) = 1
                       /\ DOMAIN contents[1].m = {"uri", "mimeType", "text"}
                       /\ contents[1].m.uri = JText(uri)
                       /\ contents[1].m.mimeType = JStr("application/json")
                       /\ from_str(contents[1].m.text.tokens) = Ok(outcome.v.v)
                       /\ outcome.v.v = VAL_RESULT =>
                             contents[1].m.text = JQuoted(TXT_RESULT)

C22_Witness ==
    /\ LineText = RequestText(N("1"), "resources/read", UriParams(T(URI_QUERY)))
    /\ main_pc = "write"
    /\ outcome = Some(Ok(VAL_RESULT))
    /\ reply.some
    /\ reply.v.result.some
    /\ reply.v.result.v.m.contents.a[1].m.text = JQuoted(TXT_RESULT)


\* the payload of each static method
StaticPayload(method) ==
    CASE method = "initialize" -> INIT_RESULT
      [] method = "tools/list" -> TOOLS
      [] method = "resources/list" -> RESOURCES

\* C23: initialize, tools/list and resources/list are answered at once by a
\* success with the request's id and the payload of the method, the same
\* with and without params and whatever was read and forwarded before, and
\* no forward_request call is made for them.
C23_StaticHandlers ==
    \A id \in IdTokens, shape \in RequestShapes :
        (shape[1] \in {"initialize", "tools/list", "resources/list"}
            /\ LineText = RequestText(id, shape[1], shape[2]))
        => /\ reply.some
           /\ reply.v.error = None
           /\ reply.v.result = Some(StaticPayload(shape[1]))
           /\ to_tokens(reply.v.id) = <<id>>
           /\ NoForward
           /\ main_pc # "forward"

C23_Witness ==
    /\ nread = 2
    /\ calls = 1
    /\ LineText = RequestText(L("null"), "tools/list", PARAMS_SEARCH)
    /\ reply.some
    /\ reply.v.result = Some(TOOLS)
    /\ write_result = Some(TRUE)


\* exactly one of `result` and `error` is populated
ExactlyOne(res) == res.result.some # res.error.some

\* C24: a response built by success, error or error_with_data has exactly
\* one of `result` and `error`, and so has every response the server loop
\* builds and writes, the answer to an unparseable line included.
C24_ResultXorError ==
    /\ ret.some =>
          /\ ExactlyOne(ret.v.built)
          /\ ret.v.built.result.some <=> arg.v.fn = "success"
    /\ reply.some => ExactlyOne(reply.v)

C24_Witness ==
    /\ arg.some
    /\ arg.v.fn = "error_with_data"
    /\ arg.v.data = JNull
    /\ ret.some
    /\ ret.v.built.error = Some([code |-> arg.v.code, message |-> arg.v.message,
                                 data |-> Some(JNull)])
    /\ ret.v.built.result = None

\* the Value an error object is read back as
ErrorValue(e) ==
    JObj(IF e.data.some
         THEN [code |-> JNum(ToString(e.code)), message |-> JDisplay(e.message),
               data |-> e.data.v]
         ELSE [code |-> JNum(ToString(e.code)), message |-> JDisplay(e.message)])

\* C25: the text to_string writes for a constructed response parses, and the
\* value read back has the id of the response and, of `result` and `error`,
\* the one member the response has populated, with its value: a null id and a
\* null result are members with the value null.
C25_RoundTrip ==
    ret.some
    => LET built == ret.v.built
           back == ret.v.reparsed
       IN /\ back.ok
          /\ Get(back.v, "jsonrpc") = Some(JStr("2.0"))
          /\ Get(back.v, "id") = Some(built.id)
          /\ Get(back.v, "result") = built.result
          /\ Get(back.v, "error") =
                (IF built.error.some THEN Some(ErrorValue(built.error.v)) ELSE None)
          /\ Get(back.v, "result").some # Get(back.v, "error").some

C25_Witness ==
    /\ arg = Some([fn |-> "success", id |-> JNull, result |-> JNull])
    /\ ret.some
    /\ ret.v.text = <<P("{"), S("jsonrpc"), P(":"), S("2.0"), P(","), S("id"), P(":"),
                      L("null"), P(","), S("result"), P(":"), L("null"), P("}")>>
    /\ Get(ret.v.reparsed.v, "result") = Some(JNull)


\* the line read last is a message the loop handles: not EOF, not blank, not
\* a read error
Handled == message.some /\ message.v.ok /\ message.v.v.some

\* the steps of the loop around one message: a line is read only when no
\* message is being handled, and a response is written only for the message
\* read last, once, after forward_request has returned
OneAtATime ==
    /\ nread' # nread =>
          /\ main_pc = "read"
          /\ pc = "idle"
          /\ Handled => write_result.some
    /\ main_pc = "forward" => nwritten' = nwritten /\ nread' = nread
    /\ write_result' # write_result /\ write_result'.some =>
          /\ main_pc = "write"
          /\ main_pc' # "write"
          /\ Handled
          /\ write_result = None
          /\ reply.some
          /\ nread' = nread
          /\ inbound.some => reply.v.id = inbound.v.id
          /\ nwritten' = IF write_result'.v THEN nwritten + 1 ELSE nwritten
    /\ nwritten' # nwritten => write_result' # write_result

\* C26: the loop handles one message at a time: it reads a line only after
\* the response to the message before has been written, writes nothing while
\* forward_request is retrying, and writes one response for every message it
\* handles (it does not end with a message read and its response unwritten),
\* so the responses come out in the order of the requests.
C26_OneAtATime ==
    /\ [][OneAtATime]_vars
    /\ [](Handled /\ write_result = None => main_pc # "stopped" /\ pc # "panicked")

\* the steps of C26 alone
C26_Steps == [][OneAtATime]_vars

\* a handled message whose response is never written: the process has
\* aborted inside forward_request
C26_Unanswered == Handled /\ main_pc = "forward" /\ pc = "panicked"


RECURSIVE Doubled(_, _)

\* x * 2^n, no further once BACKOFF_MAX_MS is passed
Doubled(x, n) == IF n = 0 \/ x > BACKOFF_MAX_MS THEN x ELSE Doubled(2 * x, n - 1)

\* min(200 * 2^(attempt - 1), 1000)
CappedDoubling(n) == Min(Doubled(BACKOFF_BASE_MS, n - 1), BACKOFF_MAX_MS)

\* C28: backoff_delay_ms(attempt) is min(200 * 2^(attempt - 1), 1000) for
\* every attempt of 1 or more: 200, 400, 800 and 1000 for attempts 1 to 4.
C28_BackoffFormula ==
    ret.some
    => /\ ret.v = Ok(CappedDoubling(arg.v))
       /\ arg.v = 1 => ret.v.v = 200
       /\ arg.v = 2 => ret.v.v = 400
       /\ arg.v = 3 => ret.v.v = 800
       /\ arg.v = 4 => ret.v.v = 1000

\* the attempts for which the shift stays inside the u64
C28_InRange == ret.some /\ arg.v <= 64 => ret.v = Ok(CappedDoubling(arg.v))

\* C29: for an attempt of 4 or more, however large, backoff_delay_ms gives
\* 1000; it gives no more than 1000 for any attempt, no less than for a
\* smaller attempt, and does not fail for a positive attempt.
C29_BackoffCapped ==
    ret.some
    => /\ ret.v.ok
       /\ ret.v.v <= BACKOFF_MAX_MS
       /\ arg.v >= 4 => ret.v.v = BACKOFF_MAX_MS
       /\ \A smaller \in 1..arg.v :
             \A o \in backoff_delay_ms_outcomes(smaller) : o.ok /\ o.v <= ret.v.v

\* the shift by 64: a panic, or the delay of the first attempt again
C29_ShiftOverflow ==
    /\ arg = Some(65)
    /\ ret.some
    /\ ret.v \in {Err([panic |-> "attempt to shift left with overflow"]), Ok(200)}


\* read_message has returned Ok(None): stdin is closed
AtEof == message = Some(Ok(None))

\* C27: when stdin is closed the loop ends: the read that met the end of the
\* input writes no response and starts no forwarding, the process exits with
\* success, and nothing is read or written afterwards.
C27_EofEndsLoop ==
    /\ [](AtEof =>
            /\ main_pc = "stopped"
            /\ reply = None
            /\ write_result = None
            /\ pc = "idle"
            /\ exit_code = Some(0))
    /\ [][~AtEof]_vars

C27_Witness == AtEof /\ nread = 2 /\ nwritten = 1 /\ main_pc = "stopped"


\* the value of the first content-type header of the map, if there is one
ContentTypeOf(headers) ==
    LET at == {i \in 1..Len(headers) : headers[i].name = "content-type"}
    IN IF at = {} THEN None
       ELSE Some(headers[CHOOSE i \in at : \A j \in at : i <= j].value)

\* the text before the first `;`
BeforeSemicolon(value) ==
    LET semis == {i \in 1..Len(value) : value[i] = ";"}
        cut == IF semis = {} THEN Len(value) + 1
               ELSE CHOOSE i \in semis : \A j \in semis : i <= j
    IN SubSeq(value, 1, cut - 1)

Blank(s) == \A i \in 1..Len(s) : s[i] \in {" ", "\t"}

\* `inner` is `outer` without the blanks at its two ends
Trimmed(outer, inner) ==
    /\ inner # <<>> => inner[1] \notin {" ", "\t"} /\ inner[Len(inner)] \notin {" ", "\t"}
    /\ \E i \in 0..Len(outer), j \in 0..Len(outer) :
          /\ i <= j
          /\ inner = SubSeq(outer, i + 1, j)
          /\ Blank(SubSeq(outer, 1, i))
          /\ Blank(SubSeq(outer, j + 1, Len(outer)))

UpperOf ==
    [a |-> "A", e |-> "E", m |-> "M", n |-> "N", r |-> "R", s |-> "S", t |-> "T",
     v |-> "V", x |-> "X"]

\* `low` is `s` with "A", "E", ... turned into "a", "e", ... and the other
\* characters as they are
Lowercased(s, low) ==
    /\ Len(low) = Len(s)
    /\ \A i \in 1..Len(s) :
          IF \E l \in DOMAIN UpperOf : UpperOf[l] = s[i]
          THEN low[i] \in DOMAIN UpperOf /\ UpperOf[low[i]] = s[i]
          ELSE low[i] = s[i]

\* C30: main_content_type gives the content-type header up to its first `;`,
\* without the blanks around it and in lower case, and the empty string when
\* the header is absent or is not text: `application/json; charset=utf-8`
\* gives `application/json`, `TEXT/EVENT-STREAM` gives `text/event-stream`.
C30_MainContentType ==
    ret.some
    => LET value == ContentTypeOf(arg.v)
       IN /\ ~value.some => ret.v = <<>>
          /\ value.some /\ (\E i \in 1..Len(value.v) : value.v[i] = "BIN") => ret.v = <<>>
          /\ value.some /\ (\A i \in 1..Len(value.v) : value.v[i] # "BIN")
             => \E inner \in {SubSeq(value.v, a, b) : a \in 1..(Len(value.v) + 1),
                                                      b \in 0..Len(value.v)} :
                   /\ Trimmed(BeforeSemicolon(value.v), inner)
                   /\ Lowercased(inner, ret.v)
          /\ arg.v = HDR_JSON =>
                ret.v = <<"a", "p", "p", "l", "i", "c", "a", "t", "i", "o", "n", "/", "j", "s", "o", "n">>
          /\ arg.v = HDR_UPPER => ret.v = TEXT_EVENT_STREAM

C30_Witness ==
    /\ arg = Some(<<Header("content-type", <<" ", "T", ";">>)>>)
    /\ ret = Some(<<"t">>)


(***************************************************************************)
(* Properties of the retry loop, of the error body, and of the ends of     *)
(* the server loop.                                                         *)
(***************************************************************************)
\* the answer kept in the history is one the loop retries after
Transient(summary) ==
    IF summary.kind = "response" THEN is_transient_status(summary.status)
    ELSE is_transient_error(summary)

\* what a call returns, by the last answer it received itself
OutcomeOf(l) ==
    LET r == l.response
    IN IF r.kind = "error" THEN Err(SendError(r))
       ELSE IF ~is_success(r.status)
       THEN Err(StatusError(r.status, main_content_type(r.headers), r.headers,
                            response_bytes(r.body)))
       ELSE IF starts_with(main_content_type(r.headers), TEXT_EVENT_STREAM)
       THEN ok_or_sse_error(l.json_response)
       ELSE response_json(r.body)

\* the locals of a call hold what the call itself has done and received, and
\* nothing else
Private(l) ==
    /\ l.pc = "idle" => l = FreshLocals
    /\ l.pc # "idle" =>
          /\ l.attempt \in 1..MAX_RETRIES
          /\ Len(l.posts) = IF l.pc = "build" THEN l.attempt - 1 ELSE l.attempt
          /\ \A i \in 1..Len(l.posts) :
                l.posts[i] = [attempt |-> i, url |-> base_url, body |-> l.request]
          /\ Len(l.responses) =
                IF l.pc \in {"build", "inflight"} THEN l.attempt - 1 ELSE l.attempt
          /\ Len(l.sleeps) = IF l.pc = "sleeping" THEN l.attempt ELSE l.attempt - 1
          /\ \A i \in 1..Len(l.sleeps) : l.sleeps[i] = backoff_delay_ms(i)
          /\ \A i \in 1..(l.attempt - 1) : Transient(l.responses[i])
          /\ l.last_error.some <=> l.attempt > 1
          /\ l.pc = "done" =>
                /\ l.returns = 1
                /\ l.outcome = Some(OutcomeOf(l))
                /\ Transient(l.responses[l.attempt]) /\ ~l.outcome.v.ok
                   => l.attempt = MAX_RETRIES

\* a step of the two calls
PrivateStep ==
    /\ base_url' = base_url
    /\ calls' # calls =>
          /\ attempt' = 1
          /\ last_error' = None
          /\ error' = None
          /\ posts' = <<>>
          /\ sleeps' = <<>>
          /\ responses' = <<>>
          /\ outcome' = None
    /\ ret' = ret => arg' = arg
    /\ ret' # ret => arg'.v.locals = locals /\ locals' = arg.v.locals

\* C31: the retry state belongs to one forward_request call: a call starts at
\* attempt 1 with no recorded error however the call before ended; with two
\* calls interleaved on one client the attempts, sleeps and outcome of each are
\* those its own answers give, a step of one leaving the other's state as it
\* was; and the base URL of the client never changes.
C31_RetryStatePrivate ==
    /\ [](Private(locals) /\ (arg.some => Private(arg.v.locals)))
    /\ [][PrivateStep]_vars

\* one call is in its second attempt while the other sleeps after its first
C31_Witness ==
    /\ arg.some
    /\ pc = "inflight"
    /\ attempt = 2
    /\ last_error.some
    /\ calls = 2
    /\ arg.v.locals.pc = "sleeping"
    /\ arg.v.locals.attempt = 1
    /\ arg.v.locals.last_error = None


\* the sleeps of the call that have ended
SleepsDone == Len(sleeps) - (IF pc = "sleeping" THEN 1 ELSE 0)

\* one attempt at a time, each after the sleep that follows the one before
Sequential ==
    /\ Len(posts) - Len(responses) = (IF pc = "inflight" THEN 1 ELSE 0)
    /\ pc # "idle" => SleepsDone = attempt - 1
    /\ pc = "done" => Len(sleeps) = Len(posts) - 1

\* a send, and the start of a sleep
SequentialStep ==
    /\ Len(posts') > Len(posts) =>
          /\ pc = "build"
          /\ pc' = "inflight"
          /\ posts' = Append(posts, [attempt |-> attempt, url |-> base_url,
                                     body |-> request])
          /\ Len(posts) = attempt - 1
          /\ attempt > 1 =>
                /\ Len(responses) = attempt - 1
                /\ Transient(responses[attempt - 1])
                /\ Len(sleeps) = attempt - 1
                /\ sleeps[attempt - 1] = CappedDoubling(attempt - 1)
    /\ Len(sleeps') > Len(sleeps) =>
          /\ pc = "inflight"
          /\ pc' = "sleeping"
          /\ Transient(responses'[attempt])
          /\ posts' = posts
    /\ attempt' # attempt /\ calls' = calls =>
          /\ pc = "sleeping"
          /\ attempt' = attempt + 1

\* C32: the attempts of a call are sequential: attempt n+1 is sent only after
\* the answer to attempt n was found retryable and the sleep of
\* backoff_delay_ms(n) has ended; at most one attempt is in flight; and the
\* sleeps that have ended are one fewer than the attempts, as are all the
\* sleeps of a call that has returned.
C32_Sequential == [](Sequential) /\ [][SequentialStep]_vars

\* the third attempt is in flight after two retryable answers and two sleeps
C32_Witness ==
    /\ pc = "inflight"
    /\ attempt = 3
    /\ Len(posts) = 3
    /\ sleeps = <<200, 400>>
    /\ Len(responses) = 2


\* the call being handled by the loop has been answered 2xx
Got2xx ==
    /\ main_pc \in {"forward", "write"}
    /\ IsStatus(response)
    /\ response.status \in 200..299

\* the body of the 2xx answer gives no value: it is no JSON, or it is a
\* stream without a qualifying event before its end or its first error
DecodeFails ==
    IF response.headers \in SseHeaders
    THEN LET st == response.body.stream
         IN \A i \in DOMAIN st : Qualifies(st[i]) => \E j \in 1..(i - 1) : ~st[j].ok
    ELSE ~response.body.read_ok \/ response.body.json \notin JsonTexts

DecodeError == IF response.headers \in SseHeaders THEN SseError ELSE JsonError

\* what C33 says of a call that has returned and of its reply
NotRetried ==
    Got2xx =>
      /\ Len(posts) = attempt
      /\ Len(responses) = attempt
      /\ Len(sleeps) = attempt - 1
      /\ (pc = "done" /\ DecodeFails) =>
            /\ outcome = Some(Err(DecodeError))
            /\ main_pc = "write" =>
                  /\ reply.some
                  /\ reply.v.result = None
                  /\ ErrorCode(reply.v) = JSONRPC_INTERNAL_ERROR
                  /\ reply.v.error.v.message = format("Internal error: {e}", DecodeError)

NotRetriedStep ==
    (Got2xx /\ main_pc = "forward")
    => posts' = posts /\ sleeps' = sleeps /\ attempt' = attempt

\* C33: a 2xx answer is never retried: when its JSON body does not decode, or
\* its stream gives no qualifying object, forward_request returns that failure
\* from the same attempt, with no sleep and no further attempt, on the first
\* attempt too, and the dispatcher answers with an internal error (-32603).
C33_SuccessNotRetried ==
    /\ [](NotRetried)
    /\ []((Got2xx /\ DecodeFails) => pc \in {"sse", "done"})
    /\ [][NotRetriedStep]_vars

\* C33 for the calls that return
C33_AtReturn == [](NotRetried) /\ [][NotRetriedStep]_vars

\* the stream gave no qualifying object and the call has not returned a
\* failure: the process has aborted
C33_Aborted ==
    /\ Got2xx
    /\ DecodeFails
    /\ response.body = BODY_SSE_CUT
    /\ attempt = 1
    /\ pc = "panicked"

\* the failures of the first attempt that are returned
C33_Returned ==
    /\ Got2xx
    /\ DecodeFails
    /\ attempt = 1
    /\ main_pc = "write"
    /\ outcome = Some(Err(JsonError))
    /\ reply.some
    /\ reply.v.error.some


\* C34: the line after the loop, which returns the recorded error or
\* "Unknown error sending request", is never reached: no attempt 3 ends in a
\* sleep, every return is made from inside the loop, and a call that fails on
\* attempt 3 returns the error built from the answer to attempt 3, not the one
\* recorded for attempt 2.
C34_FallbackUnreachable ==
    /\ [](/\ pc = "sleeping" => attempt < MAX_RETRIES
          /\ outcome # Some(Err(UnknownError))
          /\ (pc = "done" /\ attempt = MAX_RETRIES /\ ~outcome.v.ok) =>
                /\ outcome = Some(OutcomeOf(locals))
                /\ responses[MAX_RETRIES] = Summary(response)
                /\ last_error.some
                /\ last_error.v # OutcomeOf(locals).e => outcome.v.e # last_error.v)
    /\ [][(pc # "done" /\ pc' = "done") => pc \in {"inflight", "sse"}]_vars

\* attempt 2 got 503 and attempt 3 failed to connect: the error returned is
\* the send failure, the recorded error is the one of the 503
C34_Witness ==
    /\ pc = "done"
    /\ attempt = MAX_RETRIES
    /\ Len(responses) = 3
    /\ responses[2] = [kind |-> "response", status |-> 503]
    /\ last_error.some
    /\ last_error.v.msg = "Bun Docs API error"
    /\ outcome = Some(Err(SendError(NetError(TRUE, FALSE, FALSE))))


\* C35: send failures and transient statuses draw on the same 3 attempts:
\* whatever the kinds of the failures, a call makes at most 3 attempts and
\* sleeps at most twice, sends nothing after the third answer, and its i-th sleep is
\* 200 * 2^(i-1) ms after a failure of either kind.
C35_SharedBudget ==
    /\ Len(posts) <= 3
    /\ Len(responses) <= 3
    /\ Len(sleeps) <= 2
    /\ \A i \in 1..Len(sleeps) :
          /\ Transient(responses[i])
          /\ sleeps[i] = (IF i = 1 THEN 200 ELSE 400)
    /\ \A i \in 1..Len(responses) :
          (Transient(responses[i]) /\ i < 3) => Len(sleeps) >= i
    /\ Len(responses) = 3 => pc \notin {"inflight", "sleeping"} /\ Len(sleeps) = 2

\* a send failure, then a 503, then a send failure
C35_Witness ==
    /\ pc = "done"
    /\ Len(responses) = 3
    /\ responses[1] = NetError(FALSE, TRUE, FALSE)
    /\ responses[2] = [kind |-> "response", status |-> 503]
    /\ responses[3] = NetError(TRUE, FALSE, FALSE)
    /\ sleeps = <<200, 400>>
    /\ Len(posts) = 3


\* a JSON-RPC error envelope: an `error` member at the top, no `result`
ErrorEnvelope(v) == Get(v, "error").some /\ ~Get(v, "result").some

\* the 2xx answer carries an error envelope: as its JSON body, or as the
\* first qualifying event of its stream
BackendError ==
    /\ Got2xx
    /\ IF response.headers \in SseHeaders
       THEN LET st == response.body.stream
            IN \E i \in DOMAIN st :
                  /\ Qualifies(st[i])
                  /\ st[i].data = TXT_ERROR
                  /\ \A j \in 1..(i - 1) : st[j].ok /\ ~Qualifies(st[j])
       ELSE response.body.read_ok /\ response.body.json = TXT_ERROR

\* C36: when the backend answers 2xx with a JSON-RPC error envelope,
\* forward_request returns the envelope as a value, from the same attempt,
\* and tools/call answers with a success whose result is the whole envelope;
\* no value returned by forward_request gives a response with an `error`.
C36_ErrorEnvelopePassed ==
    /\ ErrorEnvelope(VAL_ERROR)
    /\ BackendError =>
          /\ pc \in {"sse", "done"}
          /\ pc = "done" =>
                /\ outcome = Some(Ok(VAL_ERROR))
                /\ Len(posts) = attempt
                /\ (main_pc = "write" /\ inbound.v.method = JStr("tools/call")) =>
                      /\ reply.some
                      /\ reply.v.id = inbound.v.id
                      /\ reply.v.result = Some(VAL_ERROR)
                      /\ reply.v.error = None
    /\ (pc = "done" /\ outcome.v.ok /\ main_pc = "write"
           /\ inbound.v.method = JStr("tools/call")) =>
          reply.some /\ reply.v.error = None /\ reply.v.result.some

\* the envelope came as the JSON body of the second answer
C36_Witness ==
    /\ BackendError
    /\ response.headers \notin SseHeaders
    /\ attempt = 2
    /\ pc = "done"
    /\ main_pc = "write"
    /\ inbound.some /\ inbound.v.method = JStr("tools/call")
    /\ reply.some /\ reply.v.result = Some(VAL_ERROR) /\ reply.v.error = None

\* the envelope came as an event of a stream
C36_Stream ==
    /\ BackendError
    /\ response.headers \in SseHeaders
    /\ pc = "done"
    /\ main_pc = "write"
    /\ inbound.some /\ inbound.v.method = JStr("tools/call")
    /\ reply.some /\ reply.v.result = Some(VAL_ERROR) /\ reply.v.error = None


\* a prefix of whole characters
IsPrefix(p, t) == Len(p) <= Len(t) /\ p = SubSeq(t, 1, Len(p))

\* the snippet is the longest run of whole characters of the decoded body
\* that fits in 2048 bytes
SnippetBounded ==
    ret.some =>
      LET r == ret.v
      IN /\ text_len(r.snippet) <= 2048
         /\ r.snippet.pad <= r.body.pad
         /\ r.snippet.pad < r.body.pad => r.snippet.tail = <<>>
         /\ IsPrefix(r.snippet.tail, r.body.tail)
         /\ \A i \in DOMAIN r.snippet.tail : r.snippet.tail[i] = r.body.tail[i]
         /\ text_len(r.body) <= 2048 => r.snippet = r.body
         /\ (r.snippet.pad = r.body.pad /\ Len(r.snippet.tail) < Len(r.body.tail)) =>
               text_len(r.snippet) + r.body.tail[Len(r.snippet.tail) + 1].n > 2048

\* C37: on a non-success response forward_request reads at most 100,000
\* bytes of the body, whatever its size, and the error carries a snippet of
\* at most 2048 bytes made of whole characters.
C37_ErrorBodyBounded ==
    /\ ret.some => ret.v.read <= 100000
    /\ SnippetBounded

\* C37 without the bound on what is read: at most 100,000 bytes are decoded,
\* and the snippet is at most 2048 bytes of whole characters.
C37_SnippetBounded ==
    /\ ret.some => ret.v.decoded <= 100000
    /\ SnippetBounded

\* a body of 100,001 bytes read whole
C37_ReadWhole ==
    /\ ret.some
    /\ bytes_len(arg.v) = 100001
    /\ ret.v.read = 100001
    /\ ret.v.decoded = 100000

\* a 3-byte character across byte 2048 left out of the snippet
C37_CutAtCharacter ==
    /\ ret.some
    /\ arg.v = [pad |-> 2047, tail |-> <<"L3", "C", "C">>]
    /\ ret.v.snippet = [pad |-> 2047, tail |-> <<>>]


\* the last read_line gave a line of whitespace only: its newline alone, or
\* spaces and tabs before it
BlankRead ==
    /\ message.some
    /\ line # <<>>
    /\ \A i \in DOMAIN line : line[i].k = "space"

\* C38: a blank or whitespace-only line does what the end of the input does:
\* read_message returns no message, the loop ends with nothing written for
\* the line and nothing forwarded, and nothing is read or written afterwards.
C38_BlankLineEndsLoop ==
    /\ [](BlankRead =>
            /\ message = Some(read_message(EOF))
            /\ main_pc = "stopped"
            /\ inbound = None
            /\ reply = None
            /\ write_result = None
            /\ pc = "idle"
            /\ exit_code = Some(0))
    /\ [][~BlankRead]_vars

\* a request answered, then a line of a space and a tab
C38_Witness ==
    /\ BlankRead
    /\ line = <<W(" "), W("\t"), NEWLINE>>
    /\ nread = 2
    /\ nwritten = 1
    /\ main_pc = "stopped"

\* a line of a newline alone as the first line
C38_Newline ==
    /\ BlankRead
    /\ line = <<NEWLINE>>
    /\ nread = 1
    /\ nwritten = 0
    /\ main_pc = "stopped"

\* a request with spaces around it is answered
C38_Padded ==
    /\ line = PADDED_LINE.text \o <<NEWLINE>>
    /\ message = Some(Ok(Some(RequestText(N("1"), "tools/list", <<>>))))
    /\ nwritten = 1


\* the last read_message failed
ReadFailed == message.some /\ ~message.v.ok

\* the only steps that end the loop: a read that gives no message, and a
\* failed write of the response to a parsed request
LoopEnds ==
    (main_pc # "stopped" /\ main_pc' = "stopped")
    => \/ main_pc = "read" /\ message' = Some(Ok(None))
       \/ main_pc = "write" /\ inbound.some /\ write_result' = Some(FALSE)

\* a failed read writes nothing, forwards nothing and leaves the counters of
\* what was written as they were
ReadErrorStep ==
    ReadFailed' =>
      /\ main_pc = "read"
      /\ main_pc' = "read"
      /\ nwritten' = nwritten
      /\ pc' = pc
      /\ posts' = posts

\* C39: a read error on stdin writes no response and does not end the loop,
\* which reads again at once; the loop ends only on a read that gives no
\* message (end of input or blank line) or on a failed write of a normal
\* response, so after any number of failed reads the loop is still reading
\* and has not shut down.
C39_ReadErrorContinues ==
    /\ [](ReadFailed =>
            /\ message = Some(Err([msg |-> "Failed to read from stdin"]))
            /\ main_pc = "read"
            /\ inbound = None
            /\ reply = None
            /\ write_result = None
            /\ exit_code # Some(0)
            /\ nread < MaxMessages => ENABLED ReadMessage(READ_ERROR))
    /\ [][LoopEnds]_vars
    /\ [][ReadErrorStep]_vars

\* a second read after which the loop is reading again, nothing written
C39_Witness ==
    /\ ReadFailed
    /\ nread = 2
    /\ nwritten = 0
    /\ calls = 0
    /\ main_pc = "read"

\* the loop ended by the failed write of a response
C39_WriteEnds ==
    /\ main_pc = "stopped"
    /\ inbound.some
    /\ write_result = Some(FALSE)

====
